---- MODULE Spec2Model ----
(***************************************************************************)
(* Course-marketplace backend: the review/rating handlers with the course  *)
(* statistics they recompute, the video ordering and progress handlers,    *)
(* and the checkout / payment-confirmation handlers.  Every handler is a   *)
(* sequence of store calls.  A handler is written as a step function over  *)
(* the store: one step per await of the source.  Requests that run one at  *)
(* a time take all their steps in one action; overlapping requests take    *)
(* one step per action, so that they interleave exactly at the store calls.*)
(***************************************************************************)
EXTENDS Integers, FiniteSets, Sequences, TLC

VARIABLES
    reviews,        \* review_ratings rows
    courseStats,    \* courses rows: the columns reviews, ratingavg, title, published
    nextReviewId,   \* review_id sequence of the store
    rreq,           \* review requests: in flight, or the response last sent
    videos,         \* videos rows: video_id, in_course, order_index
    nextVideoId,    \* video_id sequence of the store
    vreq,           \* video requests: in flight, or the response last sent
    progress,       \* video_progress rows: user_id, video_id, status, watched_seconds
    presp,          \* the progress request last answered
    sessions,       \* checkout sessions held by the payment provider
    nextSessionId,  \* session id sequence of the provider
    payments,       \* payments rows
    nextPaymentId,  \* payment_id sequence of the store
    enrollments,    \* enrollments rows
    nextEnrollmentId, \* enrollment_id sequence of the store
    payreq,         \* payment requests: in flight, or the response last sent
    lreq,           \* the video listing request: in flight, or its response
    creq,           \* the course request: in flight, or its response
    conc,           \* whether requests may overlap
    mayFail,        \* whether a store call may return an error
    storeFailed     \* history: some store or provider call has returned an error

ReviewVars == <<reviews, courseStats, nextReviewId, rreq>>
VideoVars == <<videos, nextVideoId, vreq>>
ProgressVars == <<progress, presp>>
PayVars == <<sessions, nextSessionId, payments, nextPaymentId, enrollments,
             nextEnrollmentId, payreq>>
ListVars == <<lreq>>
CourseVars == <<creq>>
vars == <<ReviewVars, VideoVars, ProgressVars, PayVars, ListVars, CourseVars, conc,
          mayFail, storeFailed>>

(***************************************************************************)
(* Bounds and data                                                         *)
(***************************************************************************)
MaxReviewId == 3

Users == {"u1", "u2", "adm"}
\* users.role, as restrictTo reads it
Role(u) == IF u = "adm" THEN "admin" ELSE "user"

\* A variant that lets every role through.
RestrictToAdmin_AnyRole(u, ok) == ok

\* restrictTo('admin') calls next() when the select of the role returns and
\* the role is admin; it answers 403 otherwise.
RestrictToAdmin(u, ok) == ok /\ Role(u) = "admin"
Courses == {"c1", "c2"}            \* courses rows that exist
Author(c) == IF c = "c1" THEN "u1" ELSE "u2"
CourseIds == {"c1", "cX"}          \* course ids a review request may name
NoCourse == "none"
RSlots == {1, 2}

\* Ratings are held in tenths: 30 is 3.0.  0 stands for a missing/falsy
\* rating, Undef for a field the body does not carry.
Undef == -1
CreateRatings == {0, 30, 40, 50, 60}
UpdateRatings == {Undef, 30, 50, 60}

Outcomes == IF mayFail THEN {TRUE, FALSE} ELSE {TRUE}

(***************************************************************************)
(* Store helpers                                                           *)
(***************************************************************************)
\* .single(): the row when exactly one row matches, otherwise data = null
\* (PGRST116 for zero rows and for more than one row).
Null == [null |-> TRUE]
Single(rows) ==
    IF Cardinality(rows) = 1 THEN CHOOSE r \in rows : TRUE ELSE Null

RECURSIVE SumRatings(_)
SumRatings(rows) ==
    IF rows = {} THEN 0
    ELSE LET r == CHOOSE x \in rows : TRUE
         IN r.rating + SumRatings(rows \ {r})

\* A variant that cuts the second decimal off instead of rounding.
ToFixed1_Truncating(sum, n) == sum \div n

\* Number((sum / n).toFixed(1)) on tenths: the nearest tenth, the larger
\* one on a tie.
ToFixed1(sum, n) == (2 * sum + n) \div (2 * n)

DB == [reviews |-> reviews, stats |-> courseStats, nextId |-> nextReviewId]
Result(db, rq) == [db |-> db, rq |-> rq]

IdleReq ==
    [op |-> "none", pc |-> "idle", user |-> "u1", course |-> NoCourse,
     rid |-> 0, rating |-> Undef, hasText |-> FALSE, total |-> 0, avg |-> 0,
     status |-> 0, dupSeen |-> 0,
     \* history: the request names a row of another user (and, for the delete
     \* routes, its user has no admin role)
     other |-> FALSE,
     \* history: the request names a row of its own user; its rating is
     \* below 1.0 or above 5.0
     own |-> FALSE, outOfRange |-> FALSE,
     \* history: the store call of the request that returned an error
     failPc |-> "none"]

\* The response: what stays of a request once it has answered.
Done(rq, code) ==
    [IdleReq EXCEPT !.op = rq.op, !.pc = "done", !.status = code,
                    !.dupSeen = rq.dupSeen, !.other = rq.other,
                    !.own = rq.own, !.outOfRange = rq.outOfRange,
                    !.failPc = rq.failPc]

(***************************************************************************)
(* Rating recompute, as each review handler inlines it                     *)
(***************************************************************************)
\* A variant that answers 400 when the select fails.
RecomputeRead_ErrorSurfaced(db, rq, ok, code) ==
    Result(db, Done(rq, IF ok THEN code ELSE 400))

\* select rating from review_ratings where course_id = c; totalReviews, avgRating
RecomputeRead(db, rq, ok, code) ==
    IF ok
    THEN LET allReviews == {r \in db.reviews : r.course = rq.course}
             totalReviews == Cardinality(allReviews)
             avgRating == IF totalReviews > 0
                          THEN ToFixed1(SumRatings(allReviews), totalReviews)
                          ELSE 0
         IN Result(db, [rq EXCEPT !.pc = "rcwrite", !.total = totalReviews,
                                  !.avg = avgRating])
    ELSE Result(db, Done(rq, code))

\* update courses set reviews = totalReviews, ratingavg = avgRating
\* where courseid = c; an error is logged only.
RecomputeWrite(db, rq, ok, code) ==
    IF ok /\ rq.course \in DOMAIN db.stats
    THEN Result([db EXCEPT !.stats[rq.course].reviews = rq.total,
                           !.stats[rq.course].ratingavg = rq.avg],
                Done(rq, code))
    ELSE Result(db, Done(rq, code))

\* updateReview's variant: update courses set ratingavg = avgRating only.
RecomputeWriteAvg(db, rq, ok, code) ==
    IF ok /\ rq.course \in DOMAIN db.stats
    THEN Result([db EXCEPT !.stats[rq.course].ratingavg = rq.avg], Done(rq, code))
    ELSE Result(db, Done(rq, code))

(***************************************************************************)
(* createReview                                                            *)
(***************************************************************************)
\* A variant of the range check without the upper end.
InRange_NoUpperEnd(rating) == ~(rating < 10)

\* !(rating < 1.0 || rating > 5.0)
InRange(rating) == ~(rating < 10 \/ rating > 50)

CreateReviewStart(u, c, r, t) ==
    LET rq == [IdleReq EXCEPT !.op = "createReview", !.user = u, !.course = c,
                              !.rating = r, !.hasText = t]
    IN IF r = 0 THEN Done(rq, 400)
       ELSE IF ~InRange(r) THEN Done(rq, 400)
       ELSE [rq EXCEPT !.pc = "course"]

CreateReviewStep(db, rq, ok) ==
    CASE rq.pc = "course" ->
           IF ok /\ rq.course \in DOMAIN db.stats
           THEN Result(db, [rq EXCEPT !.pc = "dedup"])
           ELSE Result(db, Done(rq, 404))
      [] rq.pc = "dedup" ->
           LET mine == {r \in db.reviews : r.user = rq.user /\ r.course = rq.course}
               existingReview == IF ok THEN Single(mine) ELSE Null
               seen == [rq EXCEPT !.dupSeen = Cardinality(mine)]
           IN IF existingReview # Null
              THEN Result(db, Done(seen, 400))
              ELSE Result(db, [seen EXCEPT !.pc = "insert"])
      [] rq.pc = "insert" ->
           IF ok
           THEN Result([db EXCEPT
                          !.reviews = @ \cup {[id |-> db.nextId, user |-> rq.user,
                                               course |-> rq.course,
                                               rating |-> rq.rating]},
                          !.nextId = @ + 1],
                       [rq EXCEPT !.pc = "rcread", !.rid = db.nextId])
           ELSE Result(db, Done(rq, 400))
      [] rq.pc = "rcread" -> RecomputeRead(db, rq, ok, 201)
      [] rq.pc = "rcwrite" -> RecomputeWrite(db, rq, ok, 201)

(***************************************************************************)
(* updateReview                                                            *)
(***************************************************************************)
\* A variant that takes every user for the owner.
IsOwner_Anyone(existingReview, rq) == TRUE

\* existingReview.user_id === req.user.id
IsOwner(existingReview, rq) == existingReview.user = rq.user

UpdateReviewStart(u, id, r, t) ==
    [IdleReq EXCEPT !.op = "updateReview", !.pc = "fetch", !.user = u,
                    !.rid = id, !.rating = r, !.hasText = t]

UpdateReviewStep(db, rq, ok) ==
    CASE rq.pc = "fetch" ->
           LET existingReview ==
                   IF ok THEN Single({r \in db.reviews : r.id = rq.rid}) ELSE Null
           IN IF existingReview = Null THEN Result(db, Done(rq, 404))
              ELSE IF ~IsOwner(existingReview, rq) THEN Result(db, Done(rq, 403))
              ELSE IF rq.rating # Undef /\ ~InRange(rq.rating)
                   THEN Result(db, Done(rq, 400))
              ELSE IF rq.rating = Undef /\ ~rq.hasText THEN Result(db, Done(rq, 400))
              ELSE Result(db, [rq EXCEPT !.pc = "update"])
      [] rq.pc = "update" ->
           IF ~ok THEN Result(db, Done(rq, 400))
           ELSE LET hit == {r \in db.reviews : r.id = rq.rid}
                    patched == {IF rq.rating # Undef
                                THEN [r EXCEPT !.rating = rq.rating] ELSE r : r \in hit}
                    db2 == [db EXCEPT !.reviews = (@ \ hit) \cup patched]
                IN IF hit # {} /\ rq.rating # Undef
                   THEN Result(db2, [rq EXCEPT !.pc = "getcourse"])
                   ELSE Result(db2, Done(rq, 200))
      [] rq.pc = "getcourse" ->
           LET reviewData ==
                   IF ok THEN Single({r \in db.reviews : r.id = rq.rid}) ELSE Null
           IN IF reviewData = Null THEN Result(db, Done(rq, 200))
              ELSE Result(db, [rq EXCEPT !.pc = "rcread", !.course = reviewData.course])
      [] rq.pc = "rcread" -> RecomputeRead(db, rq, ok, 200)
      [] rq.pc = "rcwrite" -> RecomputeWriteAvg(db, rq, ok, 200)

(***************************************************************************)
(* deleteReview and adminDeleteReview                                      *)
(***************************************************************************)
DeleteReviewStart(u, id) ==
    [IdleReq EXCEPT !.op = "deleteReview", !.pc = "fetch", !.user = u, !.rid = id]

\* The part the two delete handlers share: course_id captured before the
\* delete, the delete, the recompute when the course_id was captured.
DeleteTail(db, rq, ok, deleteErrorCode) ==
    CASE rq.pc = "getcourse" ->
           LET reviewData ==
                   IF ok THEN Single({r \in db.reviews : r.id = rq.rid}) ELSE Null
           IN Result(db, [rq EXCEPT !.pc = "delete",
                             !.course = IF reviewData = Null THEN NoCourse
                                        ELSE reviewData.course])
      [] rq.pc = "delete" ->
           IF ~ok THEN Result(db, Done(rq, deleteErrorCode))
           ELSE LET db2 == [db EXCEPT !.reviews = {r \in @ : r.id # rq.rid}]
                IN IF rq.course # NoCourse
                   THEN Result(db2, [rq EXCEPT !.pc = "rcread"])
                   ELSE Result(db2, Done(rq, 204))
      [] rq.pc = "rcread" -> RecomputeRead(db, rq, ok, 204)
      [] rq.pc = "rcwrite" -> RecomputeWrite(db, rq, ok, 204)

DeleteReviewStep(db, rq, ok) ==
    IF rq.pc = "fetch"
    THEN LET existingReview ==
                 IF ok THEN Single({r \in db.reviews : r.id = rq.rid}) ELSE Null
         IN IF existingReview = Null THEN Result(db, Done(rq, 404))
            ELSE IF ~IsOwner(existingReview, rq) THEN Result(db, Done(rq, 403))
            ELSE Result(db, [rq EXCEPT !.pc = "getcourse"])
    ELSE DeleteTail(db, rq, ok, 400)

\* restrictTo('admin') runs before the handler: the role is read from users.
AdminDeleteReviewStart(u, id) ==
    [IdleReq EXCEPT !.op = "adminDeleteReview", !.pc = "restrict", !.user = u,
                    !.rid = id]

AdminDeleteReviewStep(db, rq, ok) ==
    IF rq.pc = "restrict"
    THEN IF RestrictToAdmin(rq.user, ok)
         THEN Result(db, [rq EXCEPT !.pc = "getcourse"])
         ELSE Result(db, Done(rq, 403))
    ELSE DeleteTail(db, rq, ok, 404)

(***************************************************************************)
(* Running review requests                                                 *)
(***************************************************************************)
ReviewStep(db, rq, ok) ==
    CASE rq.op = "createReview" -> CreateReviewStep(db, rq, ok)
      [] rq.op = "updateReview" -> UpdateReviewStep(db, rq, ok)
      [] rq.op = "deleteReview" -> DeleteReviewStep(db, rq, ok)
      [] rq.op = "adminDeleteReview" -> AdminDeleteReviewStep(db, rq, ok)

\* A request run to its response; the store call number failAt fails
\* (0: none does).  calls counts the store calls made.
\* The store call rq is at, with its outcome; a failed call is noted in the
\* request's history.
ReviewCall(db, rq, ok) ==
    ReviewStep(db, IF ok THEN rq ELSE [rq EXCEPT !.failPc = rq.pc], ok)

RECURSIVE RunReview(_, _, _, _)
RunNext(r, failAt, k) == RunReview(r.db, r.rq, failAt, k)
RunReview(db, rq, failAt, k) ==
    IF rq.pc = "done" THEN [db |-> db, rq |-> rq, calls |-> k - 1]
    ELSE RunNext(ReviewCall(db, rq, failAt # k), failAt, k + 1)

Running(s) == rreq[s].pc \notin {"idle", "done"}
FreeSlot(s) ==
    /\ ~Running(s)
    /\ \A o \in RSlots : (~Running(o)) => s <= o     \* the first free slot

\* Responses already sent are forgotten when the next request arrives.
Forget == [s \in RSlots |-> IF Running(s) THEN rreq[s] ELSE IdleReq]

Install(db) ==
    /\ reviews' = db.reviews
    /\ courseStats' = db.stats
    /\ nextReviewId' = db.nextId

\* A request arrives.  One at a time: it runs to its response.
\* Overlapping: it takes the slot and runs up to its first store call.
Arrive(s, rq) ==
    /\ FreeSlot(s)
    /\ ~storeFailed       \* a run is followed up to its first failed store call
    /\ IF conc
       THEN /\ rreq' = [Forget EXCEPT ![s] = rq]
            /\ UNCHANGED <<reviews, courseStats, nextReviewId, storeFailed>>
       ELSE /\ \A o \in RSlots : ~Running(o)
            \* the store call that fails is one of those the request makes
            /\ \E clean \in {RunReview(DB, rq, 0, 1)} :
               \E failAt \in 0..(IF mayFail THEN clean.calls ELSE 0) :
                 \E r \in {IF failAt = 0 THEN clean ELSE RunReview(DB, rq, failAt, 1)} :
                    /\ Install(r.db)
                    /\ rreq' = [Forget EXCEPT ![s] = r.rq]
                    /\ storeFailed' = (storeFailed \/ failAt # 0)
    /\ UNCHANGED <<conc, mayFail, VideoVars, ProgressVars, PayVars, ListVars,
                   CourseVars>>

BelowOneOrAboveFive(r) == r # Undef /\ (r < 10 \/ r > 50)

createReview(s, u, c, r, t) ==
    /\ nextReviewId + Cardinality({o \in RSlots : Running(o) /\ rreq[o].op = "createReview"})
          <= MaxReviewId
    /\ Arrive(s, [CreateReviewStart(u, c, r, t) EXCEPT
                     !.outOfRange = BelowOneOrAboveFive(r)])

NotOwner(u, id) == \E r \in reviews : r.id = id /\ r.user # u
OwnRow(u, id) == \E r \in reviews : r.id = id /\ r.user = u

updateReview(s, u, id, r, t) ==
    Arrive(s, [UpdateReviewStart(u, id, r, t) EXCEPT
                  !.other = NotOwner(u, id), !.own = OwnRow(u, id),
                  !.outOfRange = BelowOneOrAboveFive(r)])

deleteReview(s, u, id) ==
    Arrive(s, [DeleteReviewStart(u, id) EXCEPT
                  !.other = NotOwner(u, id) /\ Role(u) # "admin"])

adminDeleteReview(s, u, id) ==
    Arrive(s, [AdminDeleteReviewStart(u, id) EXCEPT
                  !.other = NotOwner(u, id) /\ Role(u) # "admin"])

\* An overlapping request takes its next store call.
ReviewStoreCall(s) ==
    /\ conc
    /\ Running(s)
    /\ \E ok \in Outcomes :
         \E r \in {ReviewCall(DB, rreq[s], ok)} :
            /\ Install(r.db)
            /\ rreq' = [rreq EXCEPT ![s] = r.rq]
            /\ storeFailed' = (storeFailed \/ ~ok)
    /\ UNCHANGED <<conc, mayFail, VideoVars, ProgressVars, PayVars, ListVars,
                   CourseVars>>


(***************************************************************************)
(* Videos: upload (append), reorder, admin createVideo and updateVideo     *)
(***************************************************************************)
MaxVideoId == 2
MaxIndex == 1
VSlots == {1, 2}
NoIndex == -1
OrderIndexes == 0..MaxIndex

VDB == [videos |-> videos, nextId |-> nextVideoId]

VideoIdle ==
    [op |-> "none", pc |-> "idle", user |-> "u1", course |-> NoCourse,
     vid |-> 0, idx |-> NoIndex, seen |-> {}, readOk |-> FALSE, items |-> {},
     failed |-> FALSE, status |-> 0, maxBefore |-> NoIndex, undisturbed |-> FALSE,
     \* history of a reorder: the body was no array, an update returned an
     \* error, the items whose update returned without one
     malformed |-> FALSE, erred |-> FALSE, written |-> {},
     \* upload: the request's file is an object of the courses bucket (its
     \* name ends in Date.now(), upsert is off, and nothing removes it)
     blob |-> FALSE]

VideoDone(rq, code) ==
    [VideoIdle EXCEPT !.op = rq.op, !.pc = "done", !.status = code]

VideosOf(vs, c) == {v \in vs : v.course = c}

\* The largest order_index of rows, NoIndex when there is no row.
MaxOrderIndex(rows) ==
    IF rows = {} THEN NoIndex
    ELSE CHOOSE k \in {v.order_index : v \in rows} :
             \A w \in rows : w.order_index <= k

\* order('order_index', descending).limit(1): the rows holding the largest
\* order_index, at most one of them.
TopByOrderIndex(rows) ==
    IF rows = {} THEN {}
    ELSE {CHOOSE v \in rows : \A w \in rows : w.order_index <= v.order_index}

\* A variant that reuses the largest order_index instead of the one after it.
NextOrderIndex_NoIncrement(existingVideos) ==
    IF existingVideos # {[null |-> TRUE]} /\ existingVideos # {}
    THEN (CHOOSE v \in existingVideos : TRUE).order_index
    ELSE 0

\* existingVideos && existingVideos.length > 0
\*     ? existingVideos[0].order_index + 1 : 0
NullRows == {Null}
NextOrderIndex(existingVideos) ==
    IF existingVideos # NullRows /\ existingVideos # {}
    THEN (CHOOSE v \in existingVideos : TRUE).order_index + 1
    ELSE 0

UploadStart(u, c) ==
    [VideoIdle EXCEPT !.op = "upload", !.pc = "readmax", !.user = u, !.course = c]

\* uploadVideoToStorage, then userUploadVideo.
UploadStep(db, rq, ok) ==
    CASE rq.pc = "readmax" ->
           \* the error of this select is not looked at: data is null then
           LET existingVideos ==
                   IF ok THEN TopByOrderIndex(VideosOf(db.videos, rq.course)) ELSE NullRows
           IN Result(db, [rq EXCEPT !.pc = "storage",
                             !.idx = NextOrderIndex(existingVideos),
                             !.readOk = ok,
                             !.seen = VideosOf(db.videos, rq.course)])
      [] rq.pc = "storage" ->
           IF ok THEN Result(db, [rq EXCEPT !.pc = "author", !.blob = TRUE])
           ELSE Result(db, VideoDone(rq, 400))
      [] rq.pc = "author" ->
           IF ~ok \/ rq.course \notin Courses
           THEN Result(db, [VideoDone(rq, 404) EXCEPT !.blob = rq.blob])
           ELSE IF Author(rq.course) # rq.user
           THEN Result(db, [VideoDone(rq, 403) EXCEPT !.blob = rq.blob])
           ELSE Result(db, [rq EXCEPT !.pc = "insert"])
      [] rq.pc = "insert" ->
           IF ok
           THEN LET now == VideosOf(db.videos, rq.course)
                IN Result([db EXCEPT
                       !.videos = @ \cup {[id |-> db.nextId, course |-> rq.course,
                                           order_index |-> rq.idx]},
                       !.nextId = @ + 1],
                     \* the response, with what the insert found (history)
                     [VideoDone(rq, 201) EXCEPT
                         !.vid = db.nextId, !.idx = rq.idx, !.readOk = rq.readOk,
                         !.maxBefore = MaxOrderIndex(now),
                         !.undisturbed = (now = rq.seen), !.blob = rq.blob])
           ELSE Result(db, [VideoDone(rq, 400) EXCEPT !.blob = rq.blob])

\* reorderVideos: one update per item of videoOrders, all issued at once.
\* The handler does not look at the user u that protect put on the request.
\* isArray: videoOrders is there and is an array, its items being orders.
ReorderStart(u, c, isArray, orders) ==
    IF ~isArray
    THEN [VideoDone([VideoIdle EXCEPT !.op = "reorderVideos"], 400)
             EXCEPT !.malformed = TRUE]
    ELSE IF orders = {} THEN VideoDone([VideoIdle EXCEPT !.op = "reorderVideos"], 200)
    ELSE [VideoIdle EXCEPT !.op = "reorderVideos", !.pc = "updates", !.user = u,
                           !.course = c, !.items = orders]

\* A variant that answers by the outcome of the update that completes last.
ReorderItem_LastOutcomeOnly(db, rq, item, ok) ==
    LET hit == {v \in db.videos : v.id = item.video_id /\ v.course = rq.course}
        db2 == IF ok
               THEN [db EXCEPT !.videos =
                        (@ \ hit) \cup {[v EXCEPT !.order_index = item.order_index] : v \in hit}]
               ELSE db
        left == rq.items \ {item}
    IN IF left = {}
       THEN Result(db2, VideoDone(rq, IF ~ok THEN 400 ELSE 200))
       ELSE Result(db2, [rq EXCEPT !.items = left])

\* A variant whose update is not narrowed to the course of the request.
ReorderItem_AnyCourse(db, rq, item, ok) ==
    LET hit == {v \in db.videos : v.id = item.video_id}
        db2 == IF ok
               THEN [db EXCEPT !.videos =
                        (@ \ hit) \cup {[v EXCEPT !.order_index = item.order_index] : v \in hit}]
               ELSE db
        left == rq.items \ {item}
        failed == rq.failed \/ ~ok
    IN IF left = {}
       THEN Result(db2, VideoDone(rq, IF failed THEN 400 ELSE 200))
       ELSE Result(db2, [rq EXCEPT !.items = left, !.failed = failed])

\* update videos set order_index where video_id = item.video_id and in_course = c
ReorderItem(db, rq, item, ok) ==
    LET hit == {v \in db.videos : v.id = item.video_id /\ v.course = rq.course}
        db2 == IF ok
               THEN [db EXCEPT !.videos =
                        (@ \ hit) \cup {[v EXCEPT !.order_index = item.order_index] : v \in hit}]
               ELSE db
        left == rq.items \ {item}
        failed == rq.failed \/ ~ok
    IN IF left = {}
       THEN Result(db2, VideoDone(rq, IF failed THEN 400 ELSE 200))
       ELSE Result(db2, [rq EXCEPT !.items = left, !.failed = failed])

\* createVideo and updateVideo sit behind restrictTo('admin').
CreateVideoStart(u, c, idx) ==
    [VideoIdle EXCEPT !.op = "createVideo", !.pc = "restrict", !.user = u,
                      !.course = c, !.idx = idx]

CreateVideoStep(db, rq, ok) ==
    CASE rq.pc = "restrict" ->
           IF RestrictToAdmin(rq.user, ok)
           THEN Result(db, [rq EXCEPT !.pc = "insert"])
           ELSE Result(db, VideoDone(rq, 403))
      [] rq.pc = "insert" ->
           IF ok
           THEN Result([db EXCEPT
                    !.videos = @ \cup
                        {[id |-> db.nextId, course |-> rq.course,
                          \* order_index: order_index || 0
                          order_index |-> IF rq.idx = NoIndex THEN 0 ELSE rq.idx]},
                    !.nextId = @ + 1],
                  VideoDone(rq, 201))
           ELSE Result(db, VideoDone(rq, 400))

\* idx = NoIndex: the body carries another field (the title) and no order_index.
UpdateVideoStart(u, id, idx) ==
    [VideoIdle EXCEPT !.op = "updateVideo", !.pc = "restrict", !.user = u,
                      !.vid = id, !.idx = idx]

UpdateVideoStep(db, rq, ok) ==
    CASE rq.pc = "restrict" ->
           IF RestrictToAdmin(rq.user, ok)
           THEN Result(db, [rq EXCEPT !.pc = "update"])
           ELSE Result(db, VideoDone(rq, 403))
      [] rq.pc = "update" ->
           LET hit == {v \in db.videos : v.id = rq.vid}
           IN IF ~ok \/ hit = {} THEN Result(db, VideoDone(rq, 404))
              ELSE Result([db EXCEPT !.videos = (@ \ hit) \cup
                              {IF rq.idx # NoIndex
                               THEN [v EXCEPT !.order_index = rq.idx] ELSE v : v \in hit}],
                          VideoDone(rq, 200))

VRunning(s) == vreq[s].pc \notin {"idle", "done"}
VFreeSlot(s) ==
    /\ ~VRunning(s)
    /\ \A o \in VSlots : (~VRunning(o)) => s <= o

VForget == [s \in VSlots |-> IF VRunning(s) THEN vreq[s] ELSE VideoIdle]

VInstall(db) ==
    /\ videos' = db.videos
    /\ nextVideoId' = db.nextId

NonVideoVars ==
    <<ReviewVars, ProgressVars, PayVars, ListVars, CourseVars, conc, mayFail>>

\* A video request arrives and runs up to its first store call.
VArrive(s, rq) ==
    /\ VFreeSlot(s)
    /\ ~storeFailed
    /\ vreq' = [VForget EXCEPT ![s] = rq]
    /\ UNCHANGED <<videos, nextVideoId, storeFailed, NonVideoVars>>

PendingInserts ==
    Cardinality({o \in VSlots : VRunning(o) /\ vreq[o].op \in {"upload", "createVideo"}})

userUploadVideo(s, u, c) ==
    /\ nextVideoId + PendingInserts <= MaxVideoId
    /\ VArrive(s, UploadStart(u, c))

reorderVideos(s, u, c, isArray, orders) ==
    VArrive(s, ReorderStart(u, c, isArray, orders))

createVideo(s, u, c, idx) ==
    /\ nextVideoId + PendingInserts <= MaxVideoId
    /\ VArrive(s, CreateVideoStart(u, c, idx))

updateVideo(s, u, id, idx) == VArrive(s, UpdateVideoStart(u, id, idx))

VApply(s, r, ok) ==
    /\ VInstall(r.db)
    /\ vreq' = [vreq EXCEPT ![s] = r.rq]
    /\ storeFailed' = (storeFailed \/ ~ok)
    /\ UNCHANGED NonVideoVars

\* A video request takes its next store call.
VideoStoreCall(s) ==
    /\ VRunning(s)
    /\ vreq[s].op # "reorderVideos"
    /\ \E ok \in Outcomes :
         \E r \in {CASE vreq[s].op = "upload" -> UploadStep(VDB, vreq[s], ok)
                     [] vreq[s].op = "createVideo" -> CreateVideoStep(VDB, vreq[s], ok)
                     [] vreq[s].op = "updateVideo" -> UpdateVideoStep(VDB, vreq[s], ok)} :
            VApply(s, r, ok)

\* One of the updates of a reorder completes, in any order.
ReorderUpdate(s) ==
    /\ VRunning(s)
    /\ vreq[s].op = "reorderVideos"
    /\ \E item \in vreq[s].items, ok \in Outcomes :
         \E r \in {ReorderItem(VDB, vreq[s], item, ok)} :
            VApply(s, [r EXCEPT !.rq.course = vreq[s].course,
                                !.rq.erred = vreq[s].erred \/ ~ok,
                                !.rq.written = vreq[s].written \cup
                                                  (IF ok THEN {item} ELSE {})],
                   ok)

(***************************************************************************)
(* Video progress: updateVideoProgress                                     *)
(***************************************************************************)
MaxWatched == 1
Watchers == {"u1", "u2"}
ProgressVideos == {1}
NoStatus == ""                     \* the body carries no status
StatusInputs == {NoStatus, "in_progress", "completed"}
WatchedInputs == {Undef} \cup (0..MaxWatched)

ProgressIdle ==
    [user |-> "u1", video |-> 0, status |-> NoStatus, watched |-> Undef,
     code |-> 0, replaced |-> {}]

\* A variant that stores an absent status as not_started.
UpsertObj_AbsentStatusNotStarted(u, v, st, ws) ==
    [user |-> u, video |-> v,
     status |-> IF st = NoStatus THEN "not_started" ELSE st,
     watched |-> IF ws = Undef \/ ws = 0 THEN 0 ELSE ws]

\* status: status || 'in_progress', watched_seconds: watched_seconds || 0
UpsertObj(u, v, st, ws) ==
    [user |-> u, video |-> v,
     status |-> IF st = NoStatus THEN "in_progress" ELSE st,
     watched |-> IF ws = Undef \/ ws = 0 THEN 0 ELSE ws]

\* A variant that inserts without looking for a conflicting row.
Upsert_InsertOnly(rows, obj) == rows \cup {obj}

\* upsert([obj], onConflict user_id, video_id): one statement of the store,
\* replacing the row of the pair when there is one.
Upsert(rows, obj) ==
    {r \in rows : ~(r.user = obj.user /\ r.video = obj.video)} \cup {obj}

\* The handler makes one store call, so overlapping requests act on the
\* store in the order of their calls.
updateVideoProgress(u, v, st, ws) ==
    /\ IF st = NoStatus /\ ws = Undef
       THEN /\ presp' = [ProgressIdle EXCEPT !.user = u, !.video = v, !.code = 400]
            /\ UNCHANGED <<progress, storeFailed>>
       ELSE \E ok \in Outcomes :
              /\ progress' = IF ok THEN Upsert(progress, UpsertObj(u, v, st, ws))
                             ELSE progress
              /\ presp' = [user |-> u, video |-> v, status |-> st, watched |-> ws,
                           code |-> IF ok THEN 200 ELSE 400,
                           \* history: the rows the pair had before the call
                           replaced |-> {r \in progress : r.user = u /\ r.video = v}]
              /\ storeFailed' = (storeFailed \/ ~ok)
    /\ UNCHANGED <<ReviewVars, VideoVars, PayVars, ListVars, CourseVars, conc, mayFail>>

(***************************************************************************)
(* Payments: getCheckoutSession, verifyPayment, webhookCheckout            *)
(***************************************************************************)
MaxSessionId == 3
MaxPaymentId == 2
PSlots == {1, 2}
Payers == {"u1", "u2"}
PayCourseIds == {"c1", "c2", "cX"}
Price(c) == IF c = "c1" THEN 499 ELSE 0      \* c2 has no price
NoSession == 0
EventTypes == {"checkout.session.completed", "payment_intent.created"}

PDB == [sessions |-> sessions, nextSession |-> nextSessionId,
        payments |-> payments, nextPayment |-> nextPaymentId,
        enrollments |-> enrollments, nextEnrollment |-> nextEnrollmentId]

\* called: the provider was asked to create a session.  confirming: the
\* request got as far as a paid session.  dupSeen: the payments rows of the
\* session at the request's check.  inserted: the rows the request inserted.
PayIdle ==
    [op |-> "none", pc |-> "idle", user |-> "u1", course |-> NoCourse,
     sid |-> NoSession, status |-> 0, called |-> FALSE, confirming |-> FALSE,
     dupSeen |-> 0, inserted |-> 0,
     \* history: the call of the request that returned an error
     failPc |-> "none",
     \* checkEnrollment: the answer, and (history) the rows its select matched
     isEnrolled |-> FALSE, matched |-> 0]

PayDone(rq, code) == [rq EXCEPT !.pc = "done", !.status = code]

PaidFor(rows, u, c) ==
    {p \in rows : p.user = u /\ p.course = c /\ p.status = "succeeded"}

CheckoutStart(u, c) ==
    [PayIdle EXCEPT !.op = "getCheckoutSession", !.pc = "course", !.user = u,
                    !.course = c]

CheckoutStep(db, rq, ok) ==
    CASE rq.pc = "course" ->
           IF ~ok \/ rq.course \notin Courses THEN Result(db, PayDone(rq, 404))
           ELSE IF Price(rq.course) <= 0 THEN Result(db, PayDone(rq, 400))
           ELSE Result(db, [rq EXCEPT !.pc = "purchase"])
      [] rq.pc = "purchase" ->
           \* the error of this select is not looked at
           LET existingPurchase ==
                   IF ok THEN Single(PaidFor(db.payments, rq.user, rq.course))
                   ELSE Null
           IN IF existingPurchase # Null THEN Result(db, PayDone(rq, 400))
              ELSE Result(db, [rq EXCEPT !.pc = "create"])
      [] rq.pc = "create" ->
           \* stripe.checkout.sessions.create; a throw goes to the error handler
           IF ok
           THEN Result([db EXCEPT
                          !.sessions = @ \cup {[id |-> db.nextSession, user |-> rq.user,
                                                course |-> rq.course, paid |-> FALSE]},
                          !.nextSession = @ + 1],
                       PayDone([rq EXCEPT !.called = TRUE, !.sid = db.nextSession], 200))
           ELSE Result(db, PayDone([rq EXCEPT !.called = TRUE], 500))

InsertPayment(db, rq) ==
    [db EXCEPT !.payments = @ \cup {[id |-> db.nextPayment, user |-> rq.user,
                                     course |-> rq.course, status |-> "succeeded",
                                     session |-> rq.sid]},
               !.nextPayment = @ + 1]

\* A variant that inserts no enrollment.
InsertEnrollment_Nothing(db, rq) == db

\* via is history: the session whose confirmation inserted the row.
InsertEnrollment(db, rq) ==
    [db EXCEPT !.enrollments = @ \cup {[id |-> db.nextEnrollment, user |-> rq.user,
                                        course |-> rq.course, via |-> rq.sid]},
               !.nextEnrollment = @ + 1]

\* A variant that never finds the payment of the session.
ExistingPayment_NeverFound(db, rq, ok) == Null

\* select payment_id from payments where stripe_session_id = sid, .single();
\* the error is not looked at.
ExistingPayment(db, rq, ok) ==
    IF ok THEN Single({p \in db.payments : p.session = rq.sid}) ELSE Null

SawPayments(db, rq) ==
    [rq EXCEPT !.dupSeen = Cardinality({p \in db.payments : p.session = rq.sid})]

\* A variant that takes every session for paid.
IsPaid_Always(session) == TRUE

\* session.payment_status === 'paid'
IsPaid(session) == session.paid

VerifyPaymentStart(sid) ==
    LET rq == [PayIdle EXCEPT !.op = "verifyPayment", !.sid = sid]
    IN IF sid = NoSession THEN PayDone(rq, 400) ELSE [rq EXCEPT !.pc = "retrieve"]

VerifyPaymentStep(db, rq, ok) ==
    CASE rq.pc = "retrieve" ->
           \* stripe.checkout.sessions.retrieve throws for an unknown id
           LET session == IF ok THEN Single({x \in db.sessions : x.id = rq.sid})
                          ELSE Null
           IN IF session = Null THEN Result(db, PayDone(rq, 400))
              ELSE IF ~IsPaid(session) THEN Result(db, PayDone(rq, 400))
              ELSE Result(db, [rq EXCEPT !.pc = "dedup", !.user = session.user,
                                         !.course = session.course,
                                         !.confirming = TRUE])
      [] rq.pc = "dedup" ->
           IF ExistingPayment(db, rq, ok) # Null
           THEN Result(db, PayDone(SawPayments(db, rq), 400))
           ELSE Result(db, [SawPayments(db, rq) EXCEPT !.pc = "payment"])
      [] rq.pc = "payment" ->
           IF ok THEN Result(InsertPayment(db, rq),
                             [rq EXCEPT !.pc = "enrollment", !.inserted = @ + 1])
           ELSE Result(db, PayDone(rq, 400))
      [] rq.pc = "enrollment" ->
           IF ok THEN Result(InsertEnrollment(db, rq),
                             PayDone([rq EXCEPT !.inserted = @ + 1], 200))
           ELSE Result(db, PayDone(rq, 400))

\* The event carries the session as the provider holds it.  Sessions are
\* created by getCheckoutSession only, so the metadata is there.
WebhookStart(session, sigOk, type) ==
    LET rq == [PayIdle EXCEPT !.op = "webhookCheckout", !.sid = session.id]
    IN IF ~sigOk THEN PayDone(rq, 400)
       ELSE IF type # "checkout.session.completed" THEN PayDone(rq, 200)
       ELSE IF ~IsPaid(session) THEN PayDone(rq, 200)
       ELSE [rq EXCEPT !.pc = "dedup", !.user = session.user,
                       !.course = session.course, !.confirming = TRUE]

WebhookStep(db, rq, ok) ==
    CASE rq.pc = "dedup" ->
           IF ExistingPayment(db, rq, ok) # Null
           THEN Result(db, PayDone(SawPayments(db, rq), 200))
           ELSE Result(db, [SawPayments(db, rq) EXCEPT !.pc = "payment"])
      [] rq.pc = "payment" ->
           \* a payment insert error is logged; the enrollment insert follows
           IF ok THEN Result(InsertPayment(db, rq),
                             [rq EXCEPT !.pc = "enrollment", !.inserted = @ + 1])
           ELSE Result(db, [rq EXCEPT !.pc = "enrollment"])
      [] rq.pc = "enrollment" ->
           IF ok THEN Result(InsertEnrollment(db, rq),
                             PayDone([rq EXCEPT !.inserted = @ + 1], 200))
           ELSE Result(db, PayDone(rq, 200))

\* NoUser: the request carries no req.user.
NoUser == "nobody"

CheckEnrollmentStart(u, c) ==
    LET rq == [PayIdle EXCEPT !.op = "checkEnrollment", !.user = u, !.course = c]
    IN IF u = NoUser THEN PayDone(rq, 200) ELSE [rq EXCEPT !.pc = "select"]

\* select ... from enrollments where user_id, course_id, .single(): no row
\* and several rows both come back as error PGRST116 with data null, which
\* the handler lets through; any other error is answered 400.
CheckEnrollmentStep(db, rq, ok) ==
    LET rows == {e \in db.enrollments : e.user = rq.user /\ e.course = rq.course}
        data == Single(rows)
    IN IF ~ok THEN Result(db, PayDone(rq, 400))
       ELSE Result(db, PayDone([rq EXCEPT !.isEnrolled = (data # Null),
                                          !.matched = Cardinality(rows)], 200))

PayStep(db, rq, ok) ==
    CASE rq.op = "getCheckoutSession" -> CheckoutStep(db, rq, ok)
      [] rq.op = "checkEnrollment" -> CheckEnrollmentStep(db, rq, ok)
      [] rq.op = "verifyPayment" -> VerifyPaymentStep(db, rq, ok)
      [] rq.op = "webhookCheckout" -> WebhookStep(db, rq, ok)

\* The call rq is at, with its outcome; a failed call is noted in the
\* request's history.
PayCall(db, rq, ok) ==
    PayStep(db, IF ok THEN rq ELSE [rq EXCEPT !.failPc = rq.pc], ok)

RECURSIVE RunPay(_, _, _, _)
RunPayNext(r, failAt, k) == RunPay(r.db, r.rq, failAt, k)
RunPay(db, rq, failAt, k) ==
    IF rq.pc = "done" THEN [db |-> db, rq |-> rq, calls |-> k - 1]
    ELSE RunPayNext(PayCall(db, rq, failAt # k), failAt, k + 1)

PRunning(s) == payreq[s].pc \notin {"idle", "done"}
PFreeSlot(s) ==
    /\ ~PRunning(s)
    /\ \A o \in PSlots : (~PRunning(o)) => s <= o

PForget == [s \in PSlots |-> IF PRunning(s) THEN payreq[s] ELSE PayIdle]

PInstall(db) ==
    /\ sessions' = db.sessions
    /\ nextSessionId' = db.nextSession
    /\ payments' = db.payments
    /\ nextPaymentId' = db.nextPayment
    /\ enrollments' = db.enrollments
    /\ nextEnrollmentId' = db.nextEnrollment

NonPayVars ==
    <<ReviewVars, VideoVars, ProgressVars, ListVars, CourseVars, conc, mayFail>>

PArrive(s, rq) ==
    /\ PFreeSlot(s)
    /\ ~storeFailed
    /\ IF conc
       THEN /\ payreq' = [PForget EXCEPT ![s] = rq]
            /\ UNCHANGED <<sessions, nextSessionId, payments, nextPaymentId,
                           enrollments, nextEnrollmentId, storeFailed>>
       ELSE /\ \A o \in PSlots : ~PRunning(o)
            /\ \E failAt \in (IF mayFail THEN 0..4 ELSE {0}) :
                 \E r \in {RunPay(PDB, rq, failAt, 1)} :
                    /\ failAt <= r.calls
                    /\ PInstall(r.db)
                    /\ payreq' = [PForget EXCEPT ![s] = r.rq]
                    /\ storeFailed' = (storeFailed \/ failAt # 0)
    /\ UNCHANGED NonPayVars

Pending(ops) == Cardinality({o \in PSlots : PRunning(o) /\ payreq[o].op \in ops})

getCheckoutSession(s, u, c) ==
    /\ nextSessionId + Pending({"getCheckoutSession"}) <= MaxSessionId
    /\ PArrive(s, CheckoutStart(u, c))

\* Any signed-in user may post any session id.
verifyPayment(s, sid) ==
    /\ nextPaymentId + Pending({"verifyPayment", "webhookCheckout"}) <= MaxPaymentId
    /\ PArrive(s, VerifyPaymentStart(sid))

webhookCheckout(s, session, sigOk, type) ==
    /\ nextPaymentId + Pending({"verifyPayment", "webhookCheckout"}) <= MaxPaymentId
    /\ PArrive(s, WebhookStart(session, sigOk, type))

checkEnrollment(s, u, c) == PArrive(s, CheckEnrollmentStart(u, c))

\* The payer completes the checkout at the provider.
PayerPays(sid) ==
    /\ ~storeFailed
    /\ \E x \in sessions :
         /\ x.id = sid /\ ~x.paid
         /\ sessions' = (sessions \ {x}) \cup {[x EXCEPT !.paid = TRUE]}
    /\ UNCHANGED <<nextSessionId, payments, nextPaymentId, enrollments,
                   nextEnrollmentId, payreq, storeFailed, NonPayVars>>

\* An overlapping payment request takes its next store or provider call.
PayStoreCall(s) ==
    /\ conc
    /\ PRunning(s)
    /\ \E ok \in Outcomes :
         \E r \in {PayCall(PDB, payreq[s], ok)} :
            /\ PInstall(r.db)
            /\ payreq' = [payreq EXCEPT ![s] = r.rq]
            /\ storeFailed' = (storeFailed \/ ~ok)
    /\ UNCHANGED NonPayVars

(***************************************************************************)
(* Video listings: getVideosByCourse and getVideosWithProgress             *)
(***************************************************************************)
Anonymous == "anon"                \* a request that carries no user

ListIdle ==
    [op |-> "none", pc |-> "idle", user |-> Anonymous, course |-> NoCourse,
     status |-> 0, listed |-> <<>>, out |-> <<>>,
     \* history: the course's rows at the first select, the progress table at
     \* the second, and whether the second returned without error
     sawVideos |-> {}, sawProgress |-> {}, progressOk |-> FALSE]

ListDone(rq, code) == [rq EXCEPT !.pc = "done", !.status = code]

\* select ... order('order_index', ascending): the rows in some order that is
\* ascending in order_index; the order of rows with equal order_index is the
\* store's.
AscendingByOrderIndex(rows) ==
    {sq \in [1..Cardinality(rows) -> rows] :
        /\ \A i, j \in 1..Cardinality(rows) : i # j => sq[i] # sq[j]
        /\ \A i, j \in 1..Cardinality(rows) :
              i < j => sq[i].order_index <= sq[j].order_index}

DefaultProgress == [status |-> "not_started", watched |-> 0]

\* A variant that pairs a video with a row of progressData whatever video
\* the row is for.
ProgressOf_AnyVideo(pd, v) ==
    IF pd = {} THEN DefaultProgress ELSE CHOOSE p \in pd : TRUE

\* progMap[v.video_id] || {status: 'not_started', watched_seconds: 0}
ProgressOf(pd, v) ==
    LET hit == {p \in pd : p.video = v.id}
    IN IF hit = {} THEN DefaultProgress ELSE CHOOSE p \in hit : TRUE

Mapped(listed, pd) ==
    [i \in DOMAIN listed |-> [video |-> listed[i], progress |-> ProgressOf(pd, listed[i])]]

ListByCourseStart(c) ==
    [ListIdle EXCEPT !.op = "getVideosByCourse", !.pc = "videos", !.course = c]

ListWithProgressStart(u, c) ==
    [ListIdle EXCEPT !.op = "getVideosWithProgress", !.pc = "videos", !.user = u,
                     !.course = c]

\* The steps of the two handlers: the listing the request holds after the
\* store call, for each order the store may return.
ListStep(vs, ps, rq, ok) ==
    CASE rq.pc = "videos" /\ ~ok -> {ListDone(rq, 400)}
      [] rq.pc = "videos" /\ ok ->
           {LET got == [rq EXCEPT !.listed = sq, !.sawVideos = VideosOf(vs, rq.course)]
            IN IF rq.op = "getVideosByCourse" THEN ListDone(got, 200)
               ELSE IF sq = <<>>
                    THEN ListDone([got EXCEPT !.progressOk = TRUE], 200)
               ELSE [got EXCEPT !.pc = "progress"]
            : sq \in AscendingByOrderIndex(VideosOf(vs, rq.course))}
      [] rq.pc = "progress" ->
           LET videoIds == {rq.listed[i].id : i \in DOMAIN rq.listed}
               mine == {p \in ps : p.user = rq.user /\ p.video \in videoIds}
               \* an error of this select is ignored: progressData = []
               progressData == IF ok THEN mine ELSE {}
           IN {ListDone([rq EXCEPT !.out = Mapped(rq.listed, progressData),
                                   !.sawProgress = ps, !.progressOk = ok], 200)}

NonListVars ==
    <<ReviewVars, VideoVars, ProgressVars, PayVars, CourseVars, conc, mayFail>>

LRunning == lreq.pc \notin {"idle", "done"}

\* The route of getVideosByCourse has no protect in front of it.
getVideosByCourse(c) ==
    /\ ~LRunning
    /\ ~storeFailed
    /\ lreq' = ListByCourseStart(c)
    /\ UNCHANGED <<storeFailed, NonListVars>>

\* protect runs first: the request carries a user.
getVideosWithProgress(u, c) ==
    /\ ~LRunning
    /\ ~storeFailed
    /\ lreq' = ListWithProgressStart(u, c)
    /\ UNCHANGED <<storeFailed, NonListVars>>

\* The listing request takes its next store call.
ListStoreCall ==
    /\ LRunning
    /\ \E ok \in Outcomes :
         /\ lreq' \in ListStep(videos, progress, lreq, ok)
         /\ storeFailed' = (storeFailed \/ ~ok)
    /\ UNCHANGED NonListVars

(***************************************************************************)
(* Course edits: updateCourse (admin), updateMyCourse, publishCourse and   *)
(* unpublishCourse                                                         *)
(***************************************************************************)
\* res: the statements of the handler that send a response and were begun;
\* errors: the errors handed to next, thrown ones included (catchAsync).
CourseIdle ==
    [op |-> "none", pc |-> "idle", user |-> "u1", course |-> NoCourse,
     body |-> [title |-> Undef, ratingavg |-> Undef, reviews |-> Undef],
     status |-> 0, res |-> 0, errors |-> 0]

\* The request ends with next(new AppError(..., code)).
CourseError(rq, code) ==
    [rq EXCEPT !.pc = "done", !.status = code, !.errors = @ + 1]

\* A variant that sends the body as it came: update(req.body).
Payload_WholeBody(body) ==
    [title |-> body.title, ratingavg |-> body.ratingavg, reviews |-> body.reviews,
     published |-> Undef]

\* payload: title, price, description, category, image and requirements are
\* copied from the body when there; nothing else is.
Payload(body) ==
    [title |-> body.title, ratingavg |-> Undef, reviews |-> Undef,
     published |-> Undef]

\* update(payload): the columns the payload carries are set.
UpdateColumns(row, payload) ==
    [reviews |-> IF payload.reviews # Undef THEN payload.reviews ELSE row.reviews,
     ratingavg |-> IF payload.ratingavg # Undef THEN payload.ratingavg
                   ELSE row.ratingavg,
     title |-> IF payload.title # Undef THEN payload.title ELSE row.title,
     published |-> IF payload.published # Undef THEN payload.published
                   ELSE row.published]

Published(flag) ==
    [title |-> Undef, ratingavg |-> Undef, reviews |-> Undef, published |-> flag]

\* protect calls next() when the token resolves to a user; it answers 401
\* otherwise.  NoUser: no token, or one that auth.getUser does not resolve.
Protect(u, ok) == ok /\ u # NoUser

UpdateCourseStart(u, c, body) ==
    [CourseIdle EXCEPT !.op = "updateCourse", !.pc = "protect", !.user = u,
                       !.course = c, !.body = body]

UpdateMyCourseStart(u, c, body) ==
    [CourseIdle EXCEPT !.op = "updateMyCourse", !.pc = "protect", !.user = u,
                       !.course = c, !.body = body]

PublishStart(op, u, c) ==
    [CourseIdle EXCEPT !.op = op, !.pc = "protect", !.user = u, !.course = c]

\* updateCourse and updateMyCourse look the course up by courseid and, when
\* that finds nothing, by id, a column the courses rows are not keyed by.
FindCourse(stats, rq, ok) ==
    IF ok /\ rq.course \in DOMAIN stats THEN [rq EXCEPT !.pc = "update"]
    ELSE [rq EXCEPT !.pc = "findById"]

UpdateCourseStep(stats, rq, ok) ==
    CASE rq.pc = "restrict" ->
           IF RestrictToAdmin(rq.user, ok)
           THEN [stats |-> stats, rq |-> [rq EXCEPT !.pc = "find"]]
           ELSE [stats |-> stats, rq |-> CourseError(rq, 403)]
      [] rq.pc = "find" -> [stats |-> stats, rq |-> FindCourse(stats, rq, ok)]
      [] rq.pc = "findById" -> [stats |-> stats, rq |-> CourseError(rq, 404)]
      [] rq.pc = "update" ->
           IF ~ok THEN [stats |-> stats, rq |-> CourseError(rq, 400)]
           ELSE \* res.status(200).json(...) inside the try has no return: the
                \* handler goes on to the same statement after the try, where
                \* updated is out of scope; evaluating the argument of the
                \* second json throws before it is sent, and catchAsync hands
                \* the ReferenceError to next.
                [stats |-> [stats EXCEPT ![rq.course] =
                                UpdateColumns(@, Payload(rq.body))],
                 rq |-> [rq EXCEPT !.pc = "done", !.status = 200,
                                   !.res = 2, !.errors = @ + 1]]

UpdateMyCourseStep(stats, rq, ok) ==
    CASE rq.pc = "find" ->
           LET found == FindCourse(stats, rq, ok)
           IN IF found.pc = "update" /\ Author(rq.course) # rq.user
              THEN [stats |-> stats, rq |-> CourseError(rq, 403)]
              ELSE [stats |-> stats, rq |-> found]
      [] rq.pc = "findById" -> [stats |-> stats, rq |-> CourseError(rq, 404)]
      [] rq.pc = "update" ->
           IF ~ok THEN [stats |-> stats, rq |-> CourseError(rq, 400)]
           ELSE [stats |-> [stats EXCEPT ![rq.course] =
                                UpdateColumns(@, Payload(rq.body))],
                 rq |-> [rq EXCEPT !.pc = "done", !.status = 200, !.res = 1]]

\* publishCourse and unpublishCourse: the course is read by courseid and
\* author, then published is set.  The columns publishCourse wants filled
\* are taken to be filled.
PublishStep(stats, rq, ok) ==
    CASE rq.pc = "find" ->
           IF ok /\ rq.course \in DOMAIN stats /\ Author(rq.course) = rq.user
           THEN [stats |-> stats, rq |-> [rq EXCEPT !.pc = "update"]]
           ELSE [stats |-> stats, rq |-> CourseError(rq, 404)]
      [] rq.pc = "update" ->
           IF ~ok THEN [stats |-> stats, rq |-> CourseError(rq, 400)]
           ELSE [stats |-> [stats EXCEPT ![rq.course] =
                               UpdateColumns(@, Published(IF rq.op = "publishCourse"
                                                          THEN 1 ELSE 0))],
                 rq |-> [rq EXCEPT !.pc = "done", !.status = 200, !.res = 1]]

CourseStep(stats, rq, ok) ==
    CASE rq.pc = "protect" ->
           [stats |-> stats,
            rq |-> IF Protect(rq.user, ok)
                   THEN [rq EXCEPT !.pc = IF rq.op = "updateCourse"
                                          THEN "restrict" ELSE "find"]
                   ELSE CourseError(rq, 401)]
      [] rq.op = "updateCourse" -> UpdateCourseStep(stats, rq, ok)
      [] rq.op = "updateMyCourse" -> UpdateMyCourseStep(stats, rq, ok)
      [] OTHER -> PublishStep(stats, rq, ok)

CRunning == creq.pc \notin {"idle", "done"}

NonCourseVars ==
    <<reviews, nextReviewId, rreq, VideoVars, ProgressVars, PayVars, ListVars,
      conc, mayFail>>

CourseArrive(rq) ==
    /\ ~CRunning
    /\ ~storeFailed
    /\ creq' = rq
    /\ UNCHANGED <<courseStats, storeFailed, NonCourseVars>>

updateCourse(u, c, body) == CourseArrive(UpdateCourseStart(u, c, body))
updateMyCourse(u, c, body) == CourseArrive(UpdateMyCourseStart(u, c, body))
publishCourse(u, c) == CourseArrive(PublishStart("publishCourse", u, c))
unpublishCourse(u, c) == CourseArrive(PublishStart("unpublishCourse", u, c))

\* The course request takes its next store call.
CourseStoreCall ==
    /\ CRunning
    /\ \E ok \in Outcomes :
         \E r \in {CourseStep(courseStats, creq, ok)} :
            /\ courseStats' = r.stats
            /\ creq' = r.rq
            /\ storeFailed' = (storeFailed \/ ~ok)
    /\ UNCHANGED NonCourseVars

(***************************************************************************)
(* Specifications of the review handlers                                   *)
(***************************************************************************)
InitReviewStore ==
    /\ reviews = {}
    /\ courseStats = [c \in Courses |-> [reviews |-> 0, ratingavg |-> 0,
                                         title |-> 0, published |-> 0]]
    /\ nextReviewId = 1
    /\ rreq = [s \in RSlots |-> IdleReq]
    /\ storeFailed = FALSE

InitVideoStore ==
    /\ videos = {}
    /\ nextVideoId = 1
    /\ vreq = [s \in VSlots |-> VideoIdle]

InitProgressStore ==
    /\ progress = {}
    /\ presp = ProgressIdle

InitPayStore ==
    /\ sessions = {}
    /\ nextSessionId = 1
    /\ payments = {}
    /\ nextPaymentId = 1
    /\ enrollments = {}
    /\ nextEnrollmentId = 1
    /\ payreq = [s \in PSlots |-> PayIdle]

InitListing == lreq = ListIdle

InitCourse == creq = CourseIdle

InitStores ==
    /\ InitReviewStore /\ InitVideoStore /\ InitProgressStore /\ InitPayStore
    /\ InitListing /\ InitCourse

\* Review ids a request may name: those of the rows, and one that matches no row.
ReviewIds == {r.id : r \in reviews} \cup {nextReviewId}

\* The bodies of the requests: every rating for the course that exists and
\* one for the course that does not; a review text matters to updateReview
\* only in a body without a rating.
CreateBodies == (CreateRatings \X {"c1"}) \cup {<<30, "cX">>}
UpdateBodies == (UpdateRatings \X {FALSE}) \cup {<<Undef, TRUE>>}

NextReviewSeq ==
    \/ \E s \in RSlots, u \in Users, b \in CreateBodies :
         createReview(s, u, b[2], b[1], FALSE)
    \/ \E s \in RSlots, u \in Users, id \in ReviewIds, b \in UpdateBodies :
         updateReview(s, u, id, b[1], b[2])
    \/ \E s \in RSlots, u \in Users, id \in ReviewIds : deleteReview(s, u, id)
    \/ \E s \in RSlots, u \in Users, id \in ReviewIds : adminDeleteReview(s, u, id)

ConcUsers == {"u1", "u2"}
NextReviewConc ==
    \/ \E s \in RSlots, u \in ConcUsers :
         createReview(s, u, "c1", 30, FALSE)
    \/ \E s \in RSlots, id \in ReviewIds : updateReview(s, "u1", id, 50, FALSE)
    \/ \E s \in RSlots, id \in ReviewIds : deleteReview(s, "u1", id)
    \/ \E s \in RSlots : ReviewStoreCall(s)

(***************************************************************************)
(* Properties of the review handlers                                       *)
(***************************************************************************)
RowsOf(c) == {r \in reviews : r.course = c}

\* The mean of the ratings of rows, to the nearest tenth (0 for no rows).
MeanToTenth(rows) ==
    IF rows = {} THEN 0
    ELSE LET n == Cardinality(rows)
             sum == SumRatings(rows)
         IN CHOOSE a \in 0..100 : 2 * n * a - n <= 2 * sum /\ 2 * sum < 2 * n * a + n

StatsMatchRows ==
    \A c \in Courses :
        /\ courseStats[c].reviews = Cardinality(RowsOf(c))
        /\ courseStats[c].ratingavg = MeanToTenth(RowsOf(c))

ReportsSuccess(s) ==
    /\ rreq[s].pc = "done"
    /\ rreq[s].op \in {"createReview", "updateReview", "deleteReview", "adminDeleteReview"}
    /\ rreq[s].status \in {200, 201, 204}

\* C1 as claimed: with review requests one at a time, after any review
\* create, update, delete or admin delete that reports success, the stored
\* review count and average rating of each course are the count and the
\* rounded mean of its rows.
C1_StatsAfterAnySuccess ==
    \A s \in RSlots : ReportsSuccess(s) => StatsMatchRows

\* C1 as amended: the same, as long as no store call has failed (a failed
\* recompute read or write is logged and the request still reports success).
C1_StatsAfterSuccessNoStoreError ==
    \A s \in RSlots : (ReportsSuccess(s) /\ ~storeFailed) => StatsMatchRows

\* The scenario of C1: ratings 5, 3, 4 were added and the 3 deleted; the
\* course holds average 4.5 and count 2.
C1_Witness ==
    /\ ~storeFailed
    /\ \E s \in RSlots : ReportsSuccess(s) /\ rreq[s].op = "deleteReview"
    /\ nextReviewId = 4
    /\ {r.rating : r \in RowsOf("c1")} = {50, 40}
    /\ courseStats["c1"].reviews = 2 /\ courseStats["c1"].ratingavg = 45

\* C2: with overlapping review requests and no failing store call, once no
\* review request is in flight the stored count and average of each course
\* are those computed from its rows.
C2_StatsWhenQuiescent ==
    (\A s \in RSlots : ~Running(s)) => StatsMatchRows

\* C3: a createReview whose user already has one or more rows for the course
\* is rejected with 400 and inserts nothing.
C3_DuplicateCreateRejected ==
    \A s \in RSlots :
        (rreq[s].op = "createReview" /\ rreq[s].dupSeen >= 1)
            => (rreq[s].pc = "done" /\ rreq[s].status = 400)

\* C4: at most one review row exists for each (user, course) pair.
C4_OneReviewPerUserCourse ==
    \A a, b \in reviews : (a.user = b.user /\ a.course = b.course) => a = b

Untouched == reviews' = reviews /\ courseStats' = courseStats

\* C13 as claimed: a store call of an update or delete request that names a
\* row of another user (for a delete: a user without the admin role) leaves
\* the review rows and the course statistics as they are, and the request is
\* answered 403.
C13_OthersRejected403 ==
    [][\A s \in RSlots :
          (rreq'[s] # rreq[s] /\ rreq'[s].other)
             => /\ Untouched
                /\ rreq'[s].pc = "done" => rreq'[s].status = 403]_vars

\* C13 as amended: the same, the answer being 404 when the read of the row
\* (or 403 when the read of the role) returns a store error.
C13_OthersRejected ==
    [][\A s \in RSlots :
          (rreq'[s] # rreq[s] /\ rreq'[s].other)
             => /\ Untouched
                /\ rreq'[s].pc = "done" =>
                      \/ rreq'[s].status = 403
                      \/ rreq'[s].status = 404 /\ storeFailed'
                            /\ rreq'[s].op \in {"updateReview", "deleteReview"}]_vars

\* Each of the three routes has rejected a request for another user's row.
C13_Witness ==
    \E s \in RSlots :
        /\ rreq[s].pc = "done" /\ rreq[s].other /\ rreq[s].status = 403
        /\ rreq[s].op \in {"updateReview", "deleteReview", "adminDeleteReview"}
        /\ reviews # {} /\ ~storeFailed /\ StatsMatchRows

\* Requests of every user for every row, with one body each.
NextReviewAuth ==
    \/ \E s \in RSlots, u \in Users : createReview(s, u, "c1", 30, FALSE)
    \/ \E s \in RSlots, u \in Users, id \in ReviewIds : updateReview(s, u, id, 50, FALSE)
    \/ \E s \in RSlots, u \in Users, id \in ReviewIds : deleteReview(s, u, id)
    \/ \E s \in RSlots, u \in Users, id \in ReviewIds : adminDeleteReview(s, u, id)

\* Requests with ratings in and out of the range.
NextReviewValid ==
    \/ \E s \in RSlots, u \in ConcUsers, r \in {0, 5, 30, 60} :
         createReview(s, u, "c1", r, FALSE)
    \/ \E s \in RSlots, u \in ConcUsers, id \in ReviewIds, r \in {0, 5, 50, 60} :
         updateReview(s, u, id, r, FALSE)
    \/ \E s \in RSlots, u \in ConcUsers, id \in ReviewIds : deleteReview(s, u, id)

NothingWritten == Untouched /\ nextReviewId' = nextReviewId

\* C14 as claimed: a createReview or updateReview request whose rating is
\* below 1.0 or above 5.0 writes no review row and no course statistic, and
\* is answered 400.
C14_OutOfRangeRejected400 ==
    [][\A s \in RSlots :
          (rreq'[s] # rreq[s] /\ rreq'[s].outOfRange)
             => /\ NothingWritten
                /\ rreq'[s].pc = "done" => rreq'[s].status = 400]_vars

\* C14 as amended: the same, an updateReview being answered 404 or 403 when
\* the row it names is not a row of its user or the read of the row fails.
C14_OutOfRangeRejected ==
    [][\A s \in RSlots :
          (rreq'[s] # rreq[s] /\ rreq'[s].outOfRange)
             => /\ NothingWritten
                /\ rreq'[s].pc = "done" =>
                      \/ rreq'[s].status = 400
                      \/ /\ rreq'[s].op = "updateReview"
                         /\ rreq'[s].status \in {403, 404}
                         /\ ~rreq'[s].own \/ storeFailed']_vars

\* An update of the requester's own row with a rating out of the range was
\* answered 400.
C14_Witness ==
    \E s \in RSlots :
        /\ rreq[s].pc = "done" /\ rreq[s].op = "updateReview"
        /\ rreq[s].outOfRange /\ rreq[s].own /\ rreq[s].status = 400
        /\ ~storeFailed /\ StatsMatchRows /\ reviews # {}

Succeeded(rq) ==
    /\ rq.pc = "done"
    /\ rq.status = (CASE rq.op = "createReview" -> 201
                       [] rq.op = "updateReview" -> 200
                       [] OTHER -> 204)

\* The review change of the request is in the store.
ChangeApplied(rq) ==
    CASE rq.op = "createReview" ->
           /\ nextReviewId' = nextReviewId + 1
           /\ \E r \in reviews' : r.id = nextReviewId /\ reviews' = reviews \cup {r}
      [] rq.op = "updateReview" ->
           \E r \in reviews :
               reviews' = (reviews \ {r}) \cup {[r EXCEPT !.rating = 50]}
      [] OTHER ->
           \E r \in reviews : reviews' = reviews \ {r}

\* The store error of the request came from its recompute: the select or
\* update of the statistics, or updateReview's select of the course id that
\* follows its update.
RecomputeFailed(rq) ==
    \/ rq.failPc \in {"rcread", "rcwrite"}
    \/ rq.op = "updateReview" /\ rq.failPc = "getcourse"

\* C15: a request whose recompute read or write returns a store error, its
\* insert, update or delete having succeeded, is answered 201, 200 or 204,
\* its review change is in the store, and the course statistics are the
\* ones from before the request.
C15_RecomputeFailureSwallowed ==
    [][\A s \in RSlots :
          (rreq'[s] # rreq[s] /\ RecomputeFailed(rreq'[s]))
             => /\ Succeeded(rreq'[s])
                /\ ChangeApplied(rreq'[s])
                /\ courseStats' = courseStats]_vars

\* A delete whose recompute failed has answered 204: the row is gone and the
\* course still counts it.
C15_Witness ==
    \E s \in RSlots :
        /\ rreq[s].pc = "done" /\ rreq[s].op = "deleteReview"
        /\ rreq[s].failPc \in {"rcread", "rcwrite"} /\ rreq[s].status = 204
        /\ RowsOf("c1") = {} /\ courseStats["c1"].reviews = 1

\* Review requests one at a time; a store call may fail.
InitReviewSeq == InitStores /\ conc = FALSE /\ mayFail = TRUE
SpecReviewSeq == InitReviewSeq /\ [][NextReviewSeq]_vars
SpecReviewAuth == InitReviewSeq /\ [][NextReviewAuth]_vars
SpecReviewValid == InitReviewSeq /\ [][NextReviewValid]_vars

\* u1 reviews course c1, changes the rating or only the text, and deletes,
\* one review request at a time, while the course is edited by its author
\* and by an admin; the course request and the review request overlap at
\* their store calls and a store call may fail.
NoReviewInFlight == \A o \in RSlots : ~Running(o)

\* The bodies of a course edit: a title, the two statistics columns, or
\* all three (Undef: the body does not carry the field).
EditBodies ==
    {[title |-> 1, ratingavg |-> Undef, reviews |-> Undef],
     [title |-> Undef, ratingavg |-> 50, reviews |-> 2],
     [title |-> 1, ratingavg |-> 50, reviews |-> 2]}

NextCourseEdit ==
    \/ \E s \in RSlots :
         NoReviewInFlight /\ createReview(s, "u1", "c1", 30, FALSE)
    \/ \E s \in RSlots, id \in ReviewIds, b \in {<<50, FALSE>>, <<Undef, TRUE>>} :
         NoReviewInFlight /\ updateReview(s, "u1", id, b[1], b[2])
    \/ \E s \in RSlots, id \in ReviewIds :
         NoReviewInFlight /\ deleteReview(s, "u1", id)
    \/ \E s \in RSlots : ReviewStoreCall(s)
    \/ \E u \in {"adm", "u2"}, body \in EditBodies : updateCourse(u, "c1", body)
    \/ \E u \in {"u1", "u2"}, body \in EditBodies : updateMyCourse(u, "c1", body)
    \/ \E u \in {"u1", "u2"} : publishCourse(u, "c1")
    \/ \E u \in {"u1", "u2"} : unpublishCourse(u, "c1")
    \/ CourseStoreCall

InitCourseEdit == InitStores /\ conc = TRUE /\ mayFail = TRUE
SpecCourseEdit == InitCourseEdit /\ [][NextCourseEdit]_vars

StatsChanged(c) ==
    \/ courseStats'[c].reviews # courseStats[c].reviews
    \/ courseStats'[c].ratingavg # courseStats[c].ratingavg

\* The step is the statistics update of a review request for course c: of
\* a create, of an update that carries a rating, or of a delete.
RecomputeWrites(s, c) ==
    /\ rreq[s].pc = "rcwrite" /\ rreq'[s].pc = "done"
    /\ rreq[s].course = c
    /\ rreq[s].op = "updateReview" => rreq[s].rating # Undef

InitReviewConc == InitStores /\ conc = TRUE /\ mayFail = FALSE
SpecReviewConc == InitReviewConc /\ [][NextReviewConc]_vars

\* The videoOrders lists a reorder request may carry: up to two items, for
\* different videos, over the ids of the rows.
VideoIds == {v.id : v \in videos}
OrderItems == [video_id : VideoIds, order_index : OrderIndexes]
OrderLists == {{}} \cup {{a} : a \in OrderItems} \cup
              {p \in {{a, b} : a \in OrderItems, b \in OrderItems} :
                   \A a \in p, b \in p : a.video_id = b.video_id => a = b}

NextVideo ==
    \/ \E s \in VSlots, u \in {"u1", "u2"}, c \in {"c1", "c2"} : userUploadVideo(s, u, c)
    \/ \E s \in VSlots, u \in {"u1", "u2"}, c \in {"c1", "c2"}, orders \in OrderLists :
         reorderVideos(s, u, c, TRUE, orders)
    \/ \E s \in VSlots, u \in {"u1", "adm"}, idx \in {NoIndex} \cup OrderIndexes :
         createVideo(s, u, "c1", idx)
    \/ \E s \in VSlots, u \in {"u1", "adm"}, id \in VideoIds \cup {nextVideoId},
          idx \in {NoIndex} \cup OrderIndexes : updateVideo(s, u, id, idx)
    \/ \E s \in VSlots : VideoStoreCall(s)
    \/ \E s \in VSlots : ReorderUpdate(s)

\* Reorders of course c1, one at a time, over rows an admin created; the
\* body may be no array.
NextReorder ==
    \/ \E s \in VSlots, idx \in OrderIndexes : createVideo(s, "adm", "c1", idx)
    \/ \E s \in VSlots : VideoStoreCall(s)
    \/ \E s \in VSlots, isArray \in BOOLEAN :
        \E orders \in (IF isArray THEN OrderLists ELSE {{}}) :
         /\ \A o \in VSlots : ~(VRunning(o) /\ vreq[o].op = "reorderVideos")
         /\ reorderVideos(s, "u1", "c1", isArray, orders)
    \/ \E s \in VSlots : ReorderUpdate(s)

\* The writers of course c1's videos other than reorder.
NextAppend ==
    \/ \E s \in VSlots, u \in {"u1", "u2"} : userUploadVideo(s, u, "c1")
    \/ \E s \in VSlots, idx \in {NoIndex} \cup OrderIndexes :
         createVideo(s, "adm", "c1", idx)
    \/ \E s \in VSlots, u \in {"u1", "adm"}, id \in VideoIds \cup {nextVideoId},
          idx \in {NoIndex} \cup OrderIndexes : updateVideo(s, u, id, idx)
    \/ \E s \in VSlots : VideoStoreCall(s)

(***************************************************************************)
(* Properties of the video handlers                                        *)
(***************************************************************************)
\* C22: an upload by a user who is not the course's author is answered 403
\* with no object stored in the bucket and no video row inserted for it.
C22_RejectedUploadStoresNothing ==
    \A s \in VSlots :
        (vreq[s].op = "upload" /\ vreq[s].pc = "done" /\ vreq[s].status = 403)
            => (~vreq[s].blob /\ vreq[s].vid = 0)

Reordered(s) == vreq[s].op = "reorderVideos" /\ vreq[s].pc = "done"

\* The rows the request's successful updates matched carry the order_index
\* those updates set.
WrittenRemain(s) ==
    \A item \in vreq[s].written : \A v \in videos :
        (v.id = item.video_id /\ v.course = vreq[s].course)
            => v.order_index = item.order_index

Appended(s) == vreq[s].op = "upload" /\ vreq[s].pc = "done" /\ vreq[s].status = 201

IndexAfter(k) == IF k = NoIndex THEN 0 ELSE k + 1

C6_UniqueOrderIndex ==
    \A a, b \in videos :
        (a.course = b.course /\ a.order_index = b.order_index) => a = b

\* C12: a store call of an upload or a reorder whose user is not the author
\* of the course leaves the video rows of the course as they are.
C12_OnlyAuthorAppendsOrReorders ==
    [][\A s \in VSlots :
          (/\ VRunning(s)
           /\ vreq[s].op \in {"upload", "reorderVideos"}
           /\ vreq'[s] # vreq[s]
           /\ vreq[s].user # Author(vreq[s].course))
             => VideosOf(videos', vreq[s].course) = VideosOf(videos, vreq[s].course)]_vars

\* Video requests overlapping at their store calls; a store call may fail.
InitVideo == InitStores /\ conc = TRUE /\ mayFail = TRUE
SpecVideo == InitVideo /\ [][NextVideo]_vars
SpecReorder == InitVideo /\ [][NextReorder]_vars
SpecAppend == InitVideo /\ [][NextAppend]_vars

(***************************************************************************)
(* Video progress: specification and properties                            *)
(***************************************************************************)
NextProgress ==
    \E u \in Watchers, v \in ProgressVideos, st \in StatusInputs, ws \in WatchedInputs :
        updateVideoProgress(u, v, st, ws)

InitProgress == InitStores /\ conc = TRUE /\ mayFail = TRUE
SpecProgress == InitProgress /\ [][NextProgress]_vars

\* Bodies with any string as status and any number as watched_seconds: the
\* handler looks at neither beyond their being there.
AnyStatusInputs == StatusInputs \cup {"not_started", "paused"}
AnyWatchedInputs == WatchedInputs \cup {-2}

NextProgressAny ==
    \E u \in Watchers, v \in ProgressVideos, st \in AnyStatusInputs,
       ws \in AnyWatchedInputs :
        updateVideoProgress(u, v, st, ws)

SpecProgressAny == InitProgress /\ [][NextProgressAny]_vars

\* C23: every progress row has a status among not_started, in_progress and
\* completed, and watched_seconds an integer of 0 or more.
C23_ProgressRowsWellFormed ==
    \A r \in progress :
        /\ r.status \in {"not_started", "in_progress", "completed"}
        /\ r.watched \in Nat

RowsOfPair(u, v) == {r \in progress : r.user = u /\ r.video = v}

\* C7: each (user, video) pair has at most one progress row, and after a
\* progress update that follows another the pair's row holds the status and
\* the watched_seconds the later update carried.
C7_OneProgressRowLatestValues ==
    /\ \A u \in Watchers, v \in ProgressVideos : Cardinality(RowsOfPair(u, v)) <= 1
    /\ presp.code = 200 =>
         \E r \in RowsOfPair(presp.user, presp.video) :
            /\ presp.status # NoStatus => r.status = presp.status
            /\ presp.watched # Undef => r.watched = presp.watched

\* A second update of a pair has replaced a row that held another status and
\* another watched_seconds.
C7_Witness ==
    /\ presp.code = 200
    /\ presp.status # NoStatus /\ presp.watched # Undef
    /\ \E old \in presp.replaced :
         old.status # presp.status /\ old.watched # presp.watched
    /\ RowsOfPair(presp.user, presp.video) =
         {[user |-> presp.user, video |-> presp.video, status |-> presp.status,
           watched |-> presp.watched]}

\* The row the claim expects of an update carrying st and ws.
RowWithDefaults(u, v, st, ws) ==
    [user |-> u, video |-> v,
     status |-> IF st = NoStatus THEN "in_progress" ELSE st,
     watched |-> IF ws = Undef THEN 0 ELSE ws]

\* C17: a progress update carrying neither status nor watched_seconds is
\* answered 400 and leaves the rows as they are; an accepted update carrying
\* one of them leaves the pair with the one row holding the status it
\* carried, or in_progress, and the watched_seconds it carried, or 0,
\* whatever the pair's row held before, and leaves the other pairs' rows.
C17_DefaultsOverwrite ==
    [][presp' # presp =>
         /\ (presp'.status = NoStatus /\ presp'.watched = Undef)
               => (presp'.code = 400 /\ progress' = progress)
         /\ presp'.code # 200 => progress' = progress
         /\ presp'.code = 200 =>
               /\ ~(presp'.status = NoStatus /\ presp'.watched = Undef)
               /\ progress' =
                    {r \in progress :
                        ~(r.user = presp'.user /\ r.video = presp'.video)}
                    \cup {RowWithDefaults(presp'.user, presp'.video,
                                          presp'.status, presp'.watched)}]_vars

\* A watched_seconds-only update of a completed row has left it in_progress,
\* the row having held another watched_seconds.
C17_Witness ==
    /\ presp.code = 200
    /\ presp.status = NoStatus /\ presp.watched = 0
    /\ \E old \in presp.replaced : old.status = "completed" /\ old.watched = 1
    /\ RowsOfPair(presp.user, presp.video) =
         {[user |-> presp.user, video |-> presp.video, status |-> "in_progress",
           watched |-> 0]}

(***************************************************************************)
(* Payments: specifications and properties                                 *)
(***************************************************************************)
SessionIds == {x.id : x \in sessions}

NextPaySeq ==
    \/ \E s \in PSlots, u \in Payers, c \in PayCourseIds : getCheckoutSession(s, u, c)
    \/ \E sid \in SessionIds : PayerPays(sid)
    \/ \E s \in PSlots, sid \in SessionIds \cup {NoSession, nextSessionId} :
         verifyPayment(s, sid)
    \/ \E s \in PSlots, session \in sessions, sigOk \in BOOLEAN, type \in EventTypes :
         webhookCheckout(s, session, sigOk, type)

NextPayConc ==
    \/ \E s \in PSlots : getCheckoutSession(s, "u1", "c1")
    \/ \E sid \in SessionIds : PayerPays(sid)
    \/ \E s \in PSlots, sid \in SessionIds : verifyPayment(s, sid)
    \/ \E s \in PSlots, session \in sessions :
         webhookCheckout(s, session, TRUE, "checkout.session.completed")
    \/ \E s \in PSlots : PayStoreCall(s)

\* Payment requests one at a time; a store or provider call may fail.
InitPaySeq == InitStores /\ conc = FALSE /\ mayFail = TRUE
SpecPaySeq == InitPaySeq /\ [][NextPaySeq]_vars

\* Payment requests one at a time; no call fails.
InitPayPlain == InitStores /\ conc = FALSE /\ mayFail = FALSE
SpecPayPlain == InitPayPlain /\ [][NextPaySeq]_vars

\* Payment requests overlapping at their calls; no call fails.
InitPayConc == InitStores /\ conc = TRUE /\ mayFail = FALSE
SpecPayConc == InitPayConc /\ [][NextPayConc]_vars

PaymentsOf(sid) == {p \in payments : p.session = sid /\ p.status = "succeeded"}
EnrollmentsVia(sid) == {e \in enrollments : e.via = sid}

Confirmed(s) ==
    /\ payreq[s].pc = "done"
    /\ payreq[s].op \in {"verifyPayment", "webhookCheckout"}
    /\ payreq[s].confirming

OnePaymentOneEnrollment(s) ==
    /\ Cardinality(PaymentsOf(payreq[s].sid)) = 1
    /\ Cardinality(EnrollmentsVia(payreq[s].sid)) = 1
    /\ payreq[s].dupSeen >= 1 => payreq[s].inserted = 0

ConfirmsUnpaid(rq) ==
    /\ rq.op \in {"verifyPayment", "webhookCheckout"}
    /\ \E x \in sessions : x.id = rq.sid /\ ~x.paid

PaidSessionFor(u, c) ==
    \E x \in sessions : x.paid /\ x.user = u /\ x.course = c

\* C19: a confirmation, by verifyPayment or the webhook, of a session that
\* is not paid inserts no payment and no enrollment; and every enrollment
\* row is for a user and a course that a paid session of the provider
\* carries.
C19_UnpaidInsertsNothing ==
    /\ [][\A s \in PSlots :
            (payreq'[s] # payreq[s] /\ ConfirmsUnpaid(payreq'[s]))
               => (payments' = payments /\ enrollments' = enrollments)]_vars
    /\ [](\A e \in enrollments : PaidSessionFor(e.user, e.course))

\* verifyPayment has answered 400 for a session that is not paid, while
\* the enrollment of a paid session is in the store and the unpaid session's
\* user and course have none.
C19_Witness ==
    \E s \in PSlots, x \in sessions :
        /\ payreq[s].pc = "done" /\ payreq[s].op = "verifyPayment"
        /\ payreq[s].sid = x.id /\ ~x.paid /\ payreq[s].status = 400
        /\ enrollments # {}
        /\ ~\E e \in enrollments : e.user = x.user /\ e.course = x.course

EnrollmentsOf(u, c) == {e \in enrollments : e.user = u /\ e.course = c}

NoConfirmationInFlight ==
    \A s \in PSlots :
        PRunning(s) => payreq[s].op \notin {"verifyPayment", "webhookCheckout"}

AsManyEnrollmentsAsPayments ==
    \A u \in Payers, c \in PayCourseIds :
        Cardinality(EnrollmentsOf(u, c)) = Cardinality(PaidFor(payments, u, c))

InsertFailed ==
    \E s \in PSlots :
        /\ payreq[s].op \in {"verifyPayment", "webhookCheckout"}
        /\ payreq[s].failPc \in {"payment", "enrollment"}

\* C20: whenever no confirmation is in flight, every (user, course) pair has
\* as many enrollment rows as succeeded payment rows, whether or not a
\* store insert has failed.
C20_EnrollmentsMatchPayments ==
    NoConfirmationInFlight => AsManyEnrollmentsAsPayments

\* C20, as long as no payment insert and no enrollment insert of a
\* confirmation has returned a store error.
C20_EnrollmentsMatchPaymentsNoInsertError ==
    (NoConfirmationInFlight /\ ~InsertFailed) => AsManyEnrollmentsAsPayments

\* A second confirmation whose read of the existing payment failed has
\* inserted again: the pair has two payments and two enrollments.
C20_Witness ==
    /\ NoConfirmationInFlight /\ ~InsertFailed /\ storeFailed
    /\ \E u \in Payers, c \in PayCourseIds :
          /\ Cardinality(EnrollmentsOf(u, c)) = 2
          /\ Cardinality(PaidFor(payments, u, c)) = 2

\* u1 opens checkouts for c1, pays and has them verified, and asks whether
\* it, u2 or nobody is enrolled; requests one at a time, no call fails.
NextEnroll ==
    \/ \E s \in PSlots : getCheckoutSession(s, "u1", "c1")
    \/ \E sid \in SessionIds : PayerPays(sid)
    \/ \E s \in PSlots, sid \in SessionIds : verifyPayment(s, sid)
    \/ \E s \in PSlots, u \in Payers \cup {NoUser}, c \in Courses :
         checkEnrollment(s, u, c)

SpecEnroll == InitPayPlain /\ [][NextEnroll]_vars

CheckedEnrollment(s) == payreq[s].op = "checkEnrollment" /\ payreq[s].pc = "done"

\* C21: checkEnrollment writes nothing; without a user it answers
\* isEnrolled = false with no error; for a user it answers isEnrolled = true
\* exactly when its select matched one or more enrollment rows of the user
\* and the course.
C21_EnrolledIffRowExists ==
    /\ [](\A s \in PSlots :
            CheckedEnrollment(s) =>
                /\ payreq[s].status = 200
                /\ payreq[s].user = NoUser => ~payreq[s].isEnrolled
                /\ payreq[s].user # NoUser =>
                      (payreq[s].isEnrolled <=> payreq[s].matched >= 1))
    /\ [][\A s \in PSlots :
            (payreq'[s] # payreq[s] /\ payreq'[s].op = "checkEnrollment")
               => (payments' = payments /\ enrollments' = enrollments
                   /\ sessions' = sessions)]_vars

\* The store after the request rq has run from db with the store call at
\* failing returning an error and every other call returning.
RECURSIVE StoreAfter(_, _, _)
StoreAfterNext(r, failing) == StoreAfter(r.db, r.rq, failing)
StoreAfter(db, rq, failing) ==
    IF rq.pc = "done" THEN db
    ELSE StoreAfterNext(PayCall(db, rq, rq.pc # failing), failing)

ConfirmationCalls == {"none", "dedup", "payment", "enrollment"}

\* C24: from the same store, for the same paid session and the same
\* outcomes of the store calls, verifyPayment and the webhook leave the same
\* payment rows and the same enrollment rows.
C24_SameConfirmation ==
    \A x \in sessions, failing \in ConfirmationCalls :
        LET byVerify == StoreAfter(PDB, VerifyPaymentStart(x.id), failing)
            byWebhook ==
                StoreAfter(PDB, WebhookStart(x, TRUE, "checkout.session.completed"),
                           failing)
        IN (x.paid /\ nextPaymentId <= MaxPaymentId) =>
              /\ byVerify.payments = byWebhook.payments
              /\ byVerify.enrollments = byWebhook.enrollments

\* C9: no session id has more than one succeeded payment.
C9_OneSucceededPaymentPerSession ==
    \A sid \in SessionIds : Cardinality(PaymentsOf(sid)) <= 1

\* C10: getCheckoutSession asks the provider for a session only when the
\* course exists, its price is positive and the user has no succeeded payment
\* for it; with one or more such payments it answers 400 and does not ask.
C10_CheckoutOnlyWhenNotPurchased ==
    \A s \in PSlots :
        (payreq[s].op = "getCheckoutSession" /\ payreq[s].pc = "done") =>
            /\ payreq[s].called =>
                 /\ payreq[s].course \in Courses
                 /\ Price(payreq[s].course) > 0
                 /\ PaidFor(payments, payreq[s].user, payreq[s].course) = {}
            /\ PaidFor(payments, payreq[s].user, payreq[s].course) # {} =>
                 (payreq[s].status = 400 /\ ~payreq[s].called)

(***************************************************************************)
(* Video listings: specifications and properties                           *)
(***************************************************************************)
\* Videos are added to course c1, u1 buys the course once, video lists are
\* asked for by u1, by u2 and without a user.
NextAccess ==
    \/ \E s \in VSlots, idx \in OrderIndexes : createVideo(s, "adm", "c1", idx)
    \/ \E s \in VSlots : VideoStoreCall(s)
    \/ \E s \in PSlots : sessions = {} /\ getCheckoutSession(s, "u1", "c1")
    \/ \E sid \in SessionIds : PayerPays(sid)
    \/ \E s \in PSlots, sid \in SessionIds : verifyPayment(s, sid)
    \/ \E c \in Courses : getVideosByCourse(c)
    \/ \E u \in Payers, c \in Courses : getVideosWithProgress(u, c)
    \/ ListStoreCall

InitAccess == InitStores /\ conc = FALSE /\ mayFail = FALSE
SpecAccess == InitAccess /\ [][NextAccess]_vars

Enrolled(u, c) == \E e \in enrollments : e.user = u /\ e.course = c

\* C11: a listing hands a course's video rows to a requester only if an
\* enrollment row exists for the requester and the course.
C11_ContentOnlyToEnrolled ==
    (lreq.pc = "done" /\ lreq.status = 200 /\ lreq.listed # <<>>)
        => Enrolled(lreq.user, lreq.course)

(***************************************************************************)
(* Listings with progress                                                  *)
(***************************************************************************)
\* An admin creates videos in course c1, one request at a time, two users
\* record progress on them, and u1 lists c1, or the empty c2, with progress;
\* a store call may fail.
NextListing ==
    \/ \E s \in VSlots, idx \in {0, 1} :
         /\ \A o \in VSlots : ~VRunning(o)
         /\ createVideo(s, "adm", "c1", idx)
    \/ \E s \in VSlots : VideoStoreCall(s)
    \/ \E u \in Watchers, v \in VideoIds :
         /\ ~storeFailed
         /\ updateVideoProgress(u, v, "completed", 1)
    \/ \E c \in {"c1", "c2"} : getVideosWithProgress("u1", c)
    \/ ListStoreCall

InitListingConc == InitStores /\ conc = TRUE /\ mayFail = TRUE
SpecListing == InitListingConc /\ [][NextListing]_vars

ListedWithProgress ==
    lreq.op = "getVideosWithProgress" /\ lreq.pc = "done" /\ lreq.status = 200

\* The listing holds every row of the course once, ascending in order_index.
EveryVideoOnceAscending ==
    /\ Len(lreq.out) = Cardinality(lreq.sawVideos)
    /\ {lreq.out[i].video : i \in DOMAIN lreq.out} = lreq.sawVideos
    /\ \A i, j \in DOMAIN lreq.out :
          i < j => lreq.out[i].video.order_index <= lreq.out[j].video.order_index

\* Each video of the listing carries the requester's progress row for it
\* when the table has one, and the default otherwise.
PairedWithOwnRow ==
    \A i \in DOMAIN lreq.out :
        LET own == {p \in lreq.sawProgress :
                       p.user = lreq.user /\ p.video = lreq.out[i].video.id}
        IN IF own = {} THEN lreq.out[i].progress = DefaultProgress
           ELSE lreq.out[i].progress \in own

NoForeignRow ==
    \A i \in DOMAIN lreq.out :
        \/ lreq.out[i].progress = DefaultProgress
        \/ /\ lreq.out[i].progress.user = lreq.user
           /\ lreq.out[i].progress.video = lreq.out[i].video.id

\* C18: a listing with progress holds every video of the course exactly
\* once, ascending in order_index, each with the requester's progress row
\* for that video if there is one and with {not_started, 0} otherwise, and
\* never with a row of another user or another video.
C18_EveryVideoWithOwnProgress ==
    ListedWithProgress =>
        EveryVideoOnceAscending /\ PairedWithOwnRow /\ NoForeignRow

\* C18, when the select of the progress rows returns without error; when it
\* returns an error every video carries {not_started, 0}.
C18_EveryVideoWithOwnProgressRead ==
    ListedWithProgress =>
        /\ EveryVideoOnceAscending /\ NoForeignRow
        /\ lreq.progressOk => PairedWithOwnRow
        /\ ~lreq.progressOk =>
              \A i \in DOMAIN lreq.out : lreq.out[i].progress = DefaultProgress

\* A listing of two videos: the first with the requester's completed row,
\* the second with the default while the other user has a row for it.
C18_Witness ==
    /\ ListedWithProgress /\ lreq.progressOk
    /\ Len(lreq.out) = 2
    /\ lreq.out[1].video.order_index < lreq.out[2].video.order_index
    /\ lreq.out[1].progress # DefaultProgress
    /\ lreq.out[1].progress.status = "completed"
    /\ lreq.out[2].progress = DefaultProgress
    /\ \E p \in progress : p.user # lreq.user /\ p.video = lreq.out[2].video.id


(***************************************************************************)
(* The routes behind protect and restrictTo('admin')                       *)
(***************************************************************************)
\* Requests of the admin routes of the three routers and of an author
\* route, by an admin, by a plain user and without a resolvable token,
\* one request at a time; store calls may fail.
NoRequestInFlight ==
    /\ NoReviewInFlight
    /\ \A s \in VSlots : ~VRunning(s)
    /\ ~CRunning

NextGuard ==
    \/ \E s \in VSlots, u \in {"u1", "adm"} :
         NoRequestInFlight /\ createVideo(s, u, "c1", 0)
    \/ \E s \in VSlots, u \in {"u1", "adm"}, id \in VideoIds :
         NoRequestInFlight /\ updateVideo(s, u, id, 1)
    \/ \E s \in VSlots : VideoStoreCall(s)
    \/ \E s \in RSlots :
         NoRequestInFlight /\ createReview(s, "u1", "c1", 30, FALSE)
    \/ \E s \in RSlots, u \in {"u1", "adm"}, id \in ReviewIds :
         NoRequestInFlight /\ adminDeleteReview(s, u, id)
    \/ \E s \in RSlots : ReviewStoreCall(s)
    \/ \E u \in {"adm", "u1", NoUser} :
         /\ NoRequestInFlight
         /\ updateCourse(u, "c1", [title |-> 1, ratingavg |-> Undef, reviews |-> Undef])
    \/ \E u \in {"u1", NoUser} :
         /\ NoRequestInFlight
         /\ updateMyCourse(u, "c1", [title |-> 2, ratingavg |-> Undef, reviews |-> Undef])
    \/ CourseStoreCall

SpecGuard == InitCourseEdit /\ [][NextGuard]_vars

AdminVideoOps == {"createVideo", "updateVideo"}

\* The request is past protect / past restrictTo: it is in its handler.
CourseInHandler ==
    /\ CRunning
    /\ creq.pc \notin {"protect", "restrict"}
AdminVideoInHandler(s) ==
    VRunning(s) /\ vreq[s].op \in AdminVideoOps /\ vreq[s].pc # "restrict"
AdminReviewInHandler(s) ==
    Running(s) /\ rreq[s].op = "adminDeleteReview" /\ rreq[s].pc # "restrict"

TablesChanged ==
    \/ videos' # videos
    \/ reviews' # reviews
    \/ courseStats' # courseStats

\* C26: a handler behind protect runs only for a request whose token
\* resolved to a user, and the request ends with 401 otherwise; a handler
\* behind restrictTo('admin') runs only for a user whose stored role is
\* admin, and otherwise the request ends with 403 and its steps write no
\* table.
C26_HandlersBehindGuards ==
    /\ [](/\ CourseInHandler => creq.user # NoUser
          /\ (CourseInHandler /\ creq.op = "updateCourse")
                => Role(creq.user) = "admin"
          /\ \A s \in VSlots :
               AdminVideoInHandler(s) => Role(vreq[s].user) = "admin"
          /\ \A s \in RSlots :
               AdminReviewInHandler(s) => Role(rreq[s].user) = "admin")
    /\ [][/\ (creq' # creq /\ creq.pc = "protect" /\ creq.user = NoUser)
               => (creq'.pc = "done" /\ creq'.status = 401 /\ ~TablesChanged)
          /\ (creq' # creq /\ creq.pc = "restrict" /\ Role(creq.user) # "admin")
               => (creq'.pc = "done" /\ creq'.status = 403 /\ ~TablesChanged)
          /\ \A s \in VSlots :
               (vreq'[s] # vreq[s] /\ vreq[s].pc = "restrict"
                  /\ Role(vreq[s].user) # "admin")
                 => (vreq'[s].pc = "done" /\ vreq'[s].status = 403
                       /\ ~TablesChanged)
          /\ \A s \in RSlots :
               (rreq'[s] # rreq[s] /\ rreq[s].pc = "restrict"
                  /\ Role(rreq[s].user) # "admin")
                 => (rreq'[s].pc = "done" /\ rreq'[s].status = 403
                       /\ ~TablesChanged)]_vars

\* A plain user's admin course edit has ended with 403 and the title is as
\* it was, while a video and a review exist that admin requests act on.
C26_Witness ==
    /\ creq.op = "updateCourse" /\ creq.pc = "done" /\ creq.status = 403
    /\ creq.user = "u1"
    /\ courseStats["c1"].title = 0
    /\ videos # {} /\ reviews # {}
    /\ \E s \in VSlots : vreq[s].op = "updateVideo" /\ vreq[s].status = 403
    /\ \E s \in RSlots : rreq[s].op = "adminDeleteReview" /\ rreq[s].status = 403


(***************************************************************************)
(* reorderVideos and the videos of other courses                           *)
(***************************************************************************)
\* Videos of two courses, created by an admin, and reorders of course c1,
\* one at a time, whose list may name any video there is.
NextReorderScope ==
    \/ \E s \in VSlots, c \in Courses : createVideo(s, "adm", c, 0)
    \/ \E s \in VSlots : VideoStoreCall(s)
    \/ \E s \in VSlots, orders \in OrderLists :
         /\ \A o \in VSlots : ~(VRunning(o) /\ vreq[o].op = "reorderVideos")
         /\ reorderVideos(s, "u1", "c1", TRUE, orders)
    \/ \E s \in VSlots : ReorderUpdate(s)

SpecReorderScope == InitVideo /\ [][NextReorderScope]_vars

\* The row with every field but order_index.
OtherFields(v) == [id |-> v.id, course |-> v.course]

\* C27: a step of a reorderVideos request for course c leaves every video
\* of another course as it is, also one whose id the request's list names,
\* and changes no field other than order_index of any video.
C27_ReorderTouchesOwnCourseOnly ==
    [][\A s \in VSlots :
         (vreq[s].op = "reorderVideos" /\ vreq'[s] # vreq[s])
           => /\ \A v \in videos : v.course # vreq[s].course => v \in videos'
              /\ \A w \in videos' : w.course # vreq[s].course => w \in videos
              /\ {OtherFields(v) : v \in videos'} = {OtherFields(v) : v \in videos}
              /\ Cardinality(videos') = Cardinality(videos)]_vars

\* A reorder of c1 has answered 200 after its updates for a video of c1 and
\* for a video of c2 returned: the first has the new order_index, the
\* second the one it was created with.
C27_Witness ==
    \E s \in VSlots :
      /\ Reordered(s) /\ vreq[s].status = 200
      /\ \E a \in vreq[s].written, b \in vreq[s].written :
           /\ a.order_index = 1 /\ b.order_index = 1
           /\ [id |-> a.video_id, course |-> "c1", order_index |-> 1] \in videos
           /\ [id |-> b.video_id, course |-> "c2", order_index |-> 0] \in videos


(***************************************************************************)
(* Deleting a review that is not there                                     *)
(***************************************************************************)
\* Reviews of u1 and deletes by id, by the owner, by another user and by
\* the admin, one request at a time; the id may be one no row has.
NextDelete ==
    \/ \E s \in RSlots :
         NoReviewInFlight /\ createReview(s, "u1", "c1", 30, FALSE)
    \/ \E s \in RSlots, u \in {"u1", "u2"}, id \in ReviewIds :
         NoReviewInFlight /\ deleteReview(s, u, id)
    \/ \E s \in RSlots, id \in ReviewIds :
         NoReviewInFlight /\ adminDeleteReview(s, "adm", id)
    \/ \E s \in RSlots : ReviewStoreCall(s)

SpecDelete == InitCourseEdit /\ [][NextDelete]_vars

\* The request in slot s is a delete, in its handler, before or at its
\* delete call, for an id that no ReviewRating row has.
DeletesUnknownId(s) ==
    /\ rreq[s].op \in {"deleteReview", "adminDeleteReview"}
    /\ rreq[s].pc \in {"fetch", "getcourse", "delete"}
    /\ \A r \in reviews : r.id # rreq[s].rid

\* C28: a step of a delete for an id that matches no row changes no review
\* row and no course statistic, and when it ends the request the answer is
\* 404, on the owner path and on the admin path.
C28_UnknownIdIs404 ==
    [][\A s \in RSlots :
         (DeletesUnknownId(s) /\ rreq'[s] # rreq[s])
           => /\ reviews' = reviews
              /\ courseStats' = courseStats
              /\ rreq'[s].pc = "done" => rreq'[s].status = 404]_vars


(***************************************************************************)
(* Confirmation retried after a failed insert                              *)
(***************************************************************************)
\* The store and the provider recover: from here on no call fails, and
\* requests are taken again.
FailuresStop ==
    /\ mayFail
    /\ mayFail' = FALSE
    /\ storeFailed' = FALSE
    /\ UNCHANGED <<ReviewVars, VideoVars, ProgressVars, PayVars, ListVars,
                   CourseVars, conc>>

NoPaymentRequestInFlight == \A o \in PSlots : ~PRunning(o)

\* Sessions of u1 for c1, paid at the provider and confirmed through
\* either path, one request at a time, call by call; calls may fail until
\* they stop failing.
NextConfirm ==
    \/ \E s \in PSlots :
         NoPaymentRequestInFlight /\ getCheckoutSession(s, "u1", "c1")
    \/ \E sid \in SessionIds : PayerPays(sid)
    \/ \E s \in PSlots, sid \in SessionIds :
         NoPaymentRequestInFlight /\ verifyPayment(s, sid)
    \/ \E s \in PSlots, session \in sessions :
         /\ NoPaymentRequestInFlight
         /\ webhookCheckout(s, session, TRUE, "checkout.session.completed")
    \/ \E s \in PSlots : PayStoreCall(s)
    \/ FailuresStop

InitConfirm == InitStores /\ conc = TRUE /\ mayFail = TRUE

\* Confirmation of every session keeps being invoked, every request runs
\* to its response, and the failures come to an end.
SpecConfirm ==
    /\ InitConfirm
    /\ [][NextConfirm]_vars
    /\ WF_vars(FailuresStop)
    /\ \A s \in PSlots : WF_vars(PayStoreCall(s))
    /\ \A sid \in 1..MaxSessionId :
         SF_vars(\E s \in PSlots :
                    NoPaymentRequestInFlight /\ verifyPayment(s, sid))

\* The provider reports the session paid, calls fail no more, and a
\* confirmation is still taken.
PaidAndRecovered(sid) ==
    /\ \E x \in sessions : x.id = sid /\ x.paid
    /\ ~mayFail /\ ~storeFailed
    /\ nextPaymentId <= MaxPaymentId

EnrolledBy(sid) ==
    \E x \in sessions :
      /\ x.id = sid
      /\ \E e \in enrollments : e.user = x.user /\ e.course = x.course

\* C29: once the provider reports a session paid and calls have stopped
\* failing, confirmation of the session being invoked again and again, an
\* Enrollment row for the session's user and course eventually exists, also
\* when an earlier confirmation inserted the Payment and failed to insert
\* the Enrollment.
C29_PaidEventuallyEnrolled ==
    \A sid \in 1..MaxSessionId : PaidAndRecovered(sid) ~> EnrolledBy(sid)


(***************************************************************************)
(* The responses of an admin course edit                                   *)
(***************************************************************************)
\* Admin edits of the course that exists and of one that does not; store
\* calls may fail.
NextAdminEdit ==
    \/ \E u \in {"adm", "u1"}, c \in {"c1", "cX"}, body \in EditBodies :
         updateCourse(u, c, body)
    \/ \E u \in {"u1", "u2"}, body \in EditBodies : updateMyCourse(u, "c1", body)
    \/ CourseStoreCall

SpecAdminEdit == InitCourseEdit /\ [][NextAdminEdit]_vars

\* C30: an admin updateCourse request that found and updated its course
\* has sent one response, the success, and has handed no error to the
\* error handler.
C30_OneResponse ==
    (creq.op = "updateCourse" /\ creq.pc = "done" /\ creq.status = 200)
      => (creq.res = 1 /\ creq.errors = 0)

====
